---- MODULE Spec2Model ----
\* Model of the linear auction-steps encoder of the create-auction page
\* (encodeLinearAuctionSteps, src/unnamed/part_007).
\*
\* The encoder works on JavaScript BigInt values (up to 2^64 and beyond), which
\* do not fit TLC's 32-bit integers.  A bigint is therefore modelled as a
\* sign and a magnitude, the magnitude being its base-16 digits, least
\* significant first, without leading zero digits.  The arithmetic below is
\* schoolbook arithmetic on those digits.
EXTENDS Integers, Sequences, FiniteSets, TLC

\* ------------------------------------------------------------------ bounds

\* Durations 1..MaxSmall, and the quotients 10,000,000 div k for k in 1..MaxSmall.
MaxSmall == 48
\* The calls of writeContract on a page.
MaxWrites == 4
\* Block numbers 0..MaxBlock on the auctions page.
MaxBlock == 3
\* Half-width of the window of durations taken around each interesting value.
Window == 2

\* --------------------------------------------------- magnitudes (naturals)

HexDigit == 0..15

RECURSIVE MagNorm(_)
\* Drops the most significant zero digits.
MagNorm(a) ==
  IF a = <<>> THEN <<>>
  ELSE IF a[Len(a)] = 0 THEN MagNorm(SubSeq(a, 1, Len(a) - 1))
  ELSE a

RECURSIVE MagOfNat(_)
MagOfNat(n) == IF n = 0 THEN <<>> ELSE <<n % 16>> \o MagOfNat(n \div 16)

Dig(a, i) == IF i <= Len(a) THEN a[i] ELSE 0

Max2(x, y) == IF x >= y THEN x ELSE y

RECURSIVE MagCmpFrom(_, _, _)
\* Compares digit i downwards: -1, 0 or 1.
MagCmpFrom(a, b, i) ==
  IF i = 0 THEN 0
  ELSE IF Dig(a, i) < Dig(b, i) THEN -1
  ELSE IF Dig(a, i) > Dig(b, i) THEN 1
  ELSE MagCmpFrom(a, b, i - 1)

MagCmp(a, b) == MagCmpFrom(a, b, Max2(Len(a), Len(b)))

RECURSIVE MagAddFrom(_, _, _, _)
MagAddFrom(a, b, i, carry) ==
  IF i > Len(a) /\ i > Len(b)
  THEN (IF carry = 0 THEN <<>> ELSE <<carry>>)
  ELSE LET s == Dig(a, i) + Dig(b, i) + carry
       IN  <<s % 16>> \o MagAddFrom(a, b, i + 1, s \div 16)

MagAdd(a, b) == MagNorm(MagAddFrom(a, b, 1, 0))

RECURSIVE MagSubFrom(_, _, _, _)
MagSubFrom(a, b, i, borrow) ==
  IF i > Len(a) THEN <<>>
  ELSE LET s == Dig(a, i) - Dig(b, i) - borrow
       IN  IF s < 0 THEN <<s + 16>> \o MagSubFrom(a, b, i + 1, 1)
           ELSE <<s>> \o MagSubFrom(a, b, i + 1, 0)

\* a - b for a >= b.
MagSub(a, b) == MagNorm(MagSubFrom(a, b, 1, 0))

RECURSIVE MagMulDigitFrom(_, _, _, _)
MagMulDigitFrom(a, d, i, carry) ==
  IF i > Len(a) THEN (IF carry = 0 THEN <<>> ELSE <<carry>>)
  ELSE LET s == a[i] * d + carry
       IN  <<s % 16>> \o MagMulDigitFrom(a, d, i + 1, s \div 16)

MagMulDigit(a, d) == MagNorm(MagMulDigitFrom(a, d, 1, 0))

RECURSIVE MagMul(_, _)
MagMul(a, b) ==
  IF b = <<>> THEN <<>>
  ELSE LET low == MagMulDigit(a, b[1])
           high == MagMul(a, Tail(b))
       IN  \* both products are computed before they are added
           IF high = <<>> \/ low = <<>>
           THEN low \o MagNorm(<<0>> \o high)
           ELSE MagAdd(low, <<0>> \o high)

\* The quotient digit: how many times b fits in r (r < 16 * b, b # 0).
MagQuotDigit(r, b) ==
  CHOOSE k \in HexDigit :
    /\ MagCmp(MagMulDigit(b, k), r) <= 0
    /\ MagCmp(MagMulDigit(b, k + 1), r) > 0

RECURSIVE MagDivModFrom(_, _, _, _)
\* Long division, from digit i of a downwards; q and r as [q, r].
MagDivModFrom(a, b, i, r) ==
  IF i = 0 THEN [q |-> <<>>, r |-> r]
  ELSE LET r1 == MagNorm(<<a[i]>> \o r)
           qd == MagQuotDigit(r1, b)
           rest == MagDivModFrom(a, b, i - 1, MagSub(r1, MagMulDigit(b, qd)))
       IN  \* the test makes the digit known before the next digit is taken up
           IF qd \in HexDigit THEN [q |-> rest.q \o <<qd>>, r |-> rest.r]
           ELSE [q |-> <<>>, r |-> <<>>]

\* b # 0.
MagDivMod(a, b) ==
  LET dm == MagDivModFrom(a, b, Len(a), <<>>)
  IN  [q |-> MagNorm(dm.q), r |-> dm.r]

\* a * 2^n: n div 4 whole digits, then n mod 4 doublings.
MagShl(a, n) ==
  LET k == n % 4
      m == IF k = 0 THEN a ELSE MagMulDigit(a, 2 ^ k)
  IN  IF m = <<>> THEN <<>> ELSE [i \in 1..(n \div 4) |-> 0] \o m

RECURSIVE BitOr(_, _)
\* Bitwise or of two naturals.
BitOr(x, y) ==
  IF x = 0 THEN y
  ELSE IF y = 0 THEN x
  ELSE Max2(x % 2, y % 2) + 2 * BitOr(x \div 2, y \div 2)

MagOr(a, b) ==
  MagNorm([i \in 1..Max2(Len(a), Len(b)) |-> BitOr(Dig(a, i), Dig(b, i))])

\* ------------------------------------------------------------------ bigints

BigOfMag(neg, m) == [neg |-> neg /\ m # <<>>, mag |-> m]

\* The bigint literal n (|n| < 2^31).
Big(n) == IF n < 0 THEN BigOfMag(TRUE, MagOfNat(0 - n)) ELSE BigOfMag(FALSE, MagOfNat(n))

\* -1, 0 or 1.
BigCmp(x, y) ==
  IF x.neg /\ ~y.neg THEN -1
  ELSE IF ~x.neg /\ y.neg THEN 1
  ELSE IF x.neg THEN MagCmp(y.mag, x.mag)
  ELSE MagCmp(x.mag, y.mag)

BigLe(x, y) == BigCmp(x, y) <= 0
BigGt(x, y) == BigCmp(x, y) > 0

BigNeg(x) == BigOfMag(~x.neg, x.mag)

BigAdd(x, y) ==
  IF x.neg = y.neg THEN BigOfMag(x.neg, MagAdd(x.mag, y.mag))
  ELSE IF MagCmp(x.mag, y.mag) >= 0 THEN BigOfMag(x.neg, MagSub(x.mag, y.mag))
  ELSE BigOfMag(y.neg, MagSub(y.mag, x.mag))

BigSub(x, y) == BigAdd(x, BigNeg(y))

BigMul(x, y) == BigOfMag(x.neg # y.neg, MagMul(x.mag, y.mag))

\* x / y and x % y of BigInt truncate towards zero; y # 0.
BigDiv(x, y) == BigOfMag(x.neg # y.neg, MagDivMod(x.mag, y.mag).q)
BigMod(x, y) == BigOfMag(x.neg, MagDivMod(x.mag, y.mag).r)

\* x << n, n a natural.
BigShl(x, n) == BigOfMag(x.neg, MagShl(x.mag, n))

\* x | y for x, y >= 0.
BigOr(x, y) == BigOfMag(FALSE, MagOr(x.mag, y.mag))

Zero == Big(0)
One == Big(1)

\* ------------------------------------------------- constants of the encoder

\* Total MPS must sum to 1e7.
MPS_TOTAL_UNITS == 10000000
MPS_BITS == 24
BLOCK_DELTA_BITS == 40
\* Hex digits of one encoded step (8 bytes).
STEP_HEX_CHARS == 16
\* Math.floor((24 * 60 * 60) / 12) blocks per day.
BLOCKS_PER_DAY == 7200

MPS_TOTAL == Big(MPS_TOTAL_UNITS)
MAX_MPS == BigSub(BigShl(One, MPS_BITS), One)
MAX_BLOCK_DELTA == BigSub(BigShl(One, BLOCK_DELTA_BITS), One)

\* ------------------------------------------------------------------ strings

\* A string is the sequence of its characters.
HexChars == <<"0", "1", "2", "3", "4", "5", "6", "7",
              "8", "9", "a", "b", "c", "d", "e", "f">>

\* x.toString(16)
ToString16(x) ==
  LET n == Len(x.mag)
      digits == IF n = 0 THEN <<"0">> ELSE [i \in 1..n |-> HexChars[x.mag[n + 1 - i] + 1]]
  IN  IF x.neg THEN <<"-">> \o digits ELSE digits

\* str.padStart(len, ch): never shortens str.
PadStart(str, len, ch) ==
  IF Len(str) >= len THEN str ELSE [i \in 1..(len - Len(str)) |-> ch] \o str

\* -------------------------------------------------------------------- state

VARIABLES
  \* encodeLinearAuctionSteps
  pc,               \* where the call of encodeLinearAuctionSteps stands
  durationInBlocks, \* its argument
  baseMps,          \* const baseMps
  remainder,        \* const remainder
  steps,            \* let steps
  totalMps,         \* let totalMps
  encoded,          \* let encoded, the value returned
  thrown,           \* the message of the Error thrown, NoError when none
  mpsTotal,         \* the value of the constant MPS_TOTAL
  memo,             \* what a caller kept of an earlier call, NoMemo when nothing
  \* handleSubmit
  submission,       \* the last run of handleSubmit: what it read and what it did
  \* FactoryERC20
  totalSupply,      \* uint256 totalSupply
  balanceOf,        \* mapping(address => uint256) balanceOf
  allowance,        \* mapping(address => mapping(address => uint256)) allowance
  lastTx,           \* the last call of the token and how it ended
  tokenHistory,     \* the supply at construction; per owner and spender, the amount
                    \* last approved and the amount moved since
  \* SimpleTokenFactory
  deployedTokens,   \* address[] deployedTokens
  tokensByDeployer, \* mapping(address => address[]) tokensByDeployer
  factoryNonce,     \* the number of contracts the factory has created
  lastDeploy,       \* the last call of deployToken and how it ended
  factoryHistory,   \* the successful deployments: deployer and token, in order
  \* the create page after the form
  setup,            \* the wallet, the three write hooks, deployedAuctionAddress
  \* the auctions page
  auctions          \* the wallet, the auction read, the block, the write hook, the bids

encoderVars ==
  <<pc, durationInBlocks, baseMps, remainder, steps, totalMps, encoded, thrown,
    mpsTotal, memo>>
tokenVars == <<totalSupply, balanceOf, allowance, lastTx, tokenHistory>>
factoryVars ==
  <<deployedTokens, tokensByDeployer, factoryNonce, lastDeploy, factoryHistory>>
uiVars == <<setup, auctions>>
vars == <<encoderVars, submission, tokenVars, factoryVars, uiVars>>

\* ------------------------------------------- encodeLinearAuctionSteps, parts

ErrPositive == "Duration must be positive"
ErrTooLarge == "Duration exceeds maximum block delta"
ErrMps == "MPS value exceeds 24-bit maximum. Use a longer duration."
ErrMismatch == "MPS total mismatch"
\* BigInt division by 0n throws a RangeError.
ErrDivZero == "RangeError: Division by zero"
NoError == ""

\* ValidateDuration with d < 0n for d <= 0n.
ValidateDuration_StrictZero(d) ==
  IF BigCmp(d, Zero) < 0 THEN ErrPositive
  ELSE IF BigGt(d, MAX_BLOCK_DELTA) THEN ErrTooLarge
  ELSE NoError

\* ValidateDuration with d >= MAX_BLOCK_DELTA for d > MAX_BLOCK_DELTA.
ValidateDuration_OffByOne(d) ==
  IF BigLe(d, Zero) THEN ErrPositive
  ELSE IF BigCmp(d, MAX_BLOCK_DELTA) >= 0 THEN ErrTooLarge
  ELSE NoError

\* ValidateDuration without the check against MAX_BLOCK_DELTA.
ValidateDuration_NoUpper(d) ==
  IF BigLe(d, Zero) THEN ErrPositive ELSE NoError

\* The two input validations; the error thrown, or NoError.
ValidateDuration(d) ==
  IF BigLe(d, Zero) THEN ErrPositive
  ELSE IF BigGt(d, MAX_BLOCK_DELTA) THEN ErrTooLarge
  ELSE NoError

\* BaseMpsOf with the operands of the division exchanged.
BaseMpsOf_Swapped(total, d) == BigDiv(d, total)

\* BaseMpsOf rounding up.
BaseMpsOf_Ceil(total, d) == BigDiv(BigSub(BigAdd(total, d), One), d)

\* MPS_TOTAL / durationInBlocks and MPS_TOTAL % durationInBlocks, d # 0.
BaseMpsOf(total, d) == BigDiv(total, d)
RemainderOf(total, d) == BigMod(total, d)

\* ValidateMps with the rate field taken to be 16 bits wide.
ValidateMps_SixteenBits(base) ==
  IF BigGt(BigAdd(base, One), BigSub(BigShl(One, 16), One)) THEN ErrMps ELSE NoError

\* The validation that the rates fit in 24 bits.
ValidateMps(base) ==
  IF BigGt(base, MAX_MPS) \/ BigGt(BigAdd(base, One), MAX_MPS) THEN ErrMps ELSE NoError

\* BuildSteps with the two block counts exchanged.
BuildSteps_SwappedDurations(d, base, rem) ==
  IF rem = Zero
  THEN <<[mps |-> base, blockDelta |-> d]>>
  ELSE <<[mps |-> base, blockDelta |-> rem],
         [mps |-> BigAdd(base, One), blockDelta |-> BigSub(d, rem)]>>

\* BuildSteps with blocksAtBaseMps = durationInBlocks, the remainder not taken off.
BuildSteps_NoSubtract(d, base, rem) ==
  IF rem = Zero
  THEN <<[mps |-> base, blockDelta |-> d]>>
  ELSE <<[mps |-> base, blockDelta |-> d],
         [mps |-> BigAdd(base, One), blockDelta |-> rem]>>

\* BuildSteps with a test for perfect division that is never true
\* (remainder === 0, a number, for remainder === 0n).
BuildSteps_NoSingle(d, base, rem) ==
  (IF BigGt(BigSub(d, rem), Zero)
   THEN <<[mps |-> base, blockDelta |-> BigSub(d, rem)]>>
   ELSE <<>>)
  \o <<[mps |-> BigAdd(base, One), blockDelta |-> rem]>>

\* BuildSteps with the step of the higher rate pushed first.
BuildSteps_HigherFirst(d, base, rem) ==
  IF rem = Zero
  THEN <<[mps |-> base, blockDelta |-> d]>>
  ELSE <<[mps |-> BigAdd(base, One), blockDelta |-> rem]>>
       \o (IF BigGt(BigSub(d, rem), Zero)
           THEN <<[mps |-> base, blockDelta |-> BigSub(d, rem)]>>
           ELSE <<>>)

\* The steps array built from the quotient and the remainder.
BuildSteps(d, base, rem) ==
  IF rem = Zero
  THEN <<[mps |-> base, blockDelta |-> d]>>
  ELSE LET blocksAtHigherMps == rem
           blocksAtBaseMps == BigSub(d, rem)
       IN  (IF BigGt(blocksAtBaseMps, Zero)
            THEN <<[mps |-> base, blockDelta |-> blocksAtBaseMps]>>
            ELSE <<>>)
           \o <<[mps |-> BigAdd(base, One), blockDelta |-> blocksAtHigherMps]>>

RECURSIVE TotalMpsFrom(_, _, _)
\* for (const step of steps) totalMps += step.mps * step.blockDelta
TotalMpsFrom(ss, i, total) ==
  IF i > Len(ss) THEN total
  ELSE TotalMpsFrom(ss, i + 1, BigAdd(total, BigMul(ss[i].mps, ss[i].blockDelta)))

TotalMps(ss) == TotalMpsFrom(ss, 1, Zero)

\* PackedValue with a shift of 32 bits.
PackedValue_Shift32(step) == BigOr(BigShl(step.mps, 32), step.blockDelta)

\* (step.mps << 40n) | step.blockDelta
PackedValue(step) == BigOr(BigShl(step.mps, BLOCK_DELTA_BITS), step.blockDelta)

\* HexValue without padStart.
HexValue_NoPad(step) == ToString16(PackedValue(step))

\* packedValue.toString(16).padStart(16, '0')
HexValue(step) == PadStart(ToString16(PackedValue(step)), STEP_HEX_CHARS, "0")

RECURSIVE EncodeFrom(_, _, _)
\* for (const step of steps) encoded += hexValue
EncodeFrom(ss, i, enc) ==
  IF i > Len(ss) THEN enc ELSE EncodeFrom(ss, i + 1, enc \o HexValue(ss[i]))

\* EncodeSteps with encoded kept from the call before (declared outside the
\* function and never set back to '0x').
EncodeSteps_Accumulating(ss) ==
  EncodeFrom(ss, 1, IF encoded = <<>> THEN <<"0", "x">> ELSE encoded)

EncodeSteps(ss) == EncodeFrom(ss, 1, <<"0", "x">>)

\* ------------------------------------------------------------------- inputs

\* The durations the form offers, in days.
FormDays == {1, 3, 7, 14, 30}

\* Durations the encoder is called with: non-positive ones, every small one,
\* the quotients of the total, windows around the form's durations, 50,000 and
\* the total, windows around the 24-, 31-, 32-, 40- and 41-bit boundaries, and
\* durations more than the total above 2^41.
SmallDurations == {Big(n) : n \in (0 - Window)..MaxSmall}
QuotientDurations == {Big(MPS_TOTAL_UNITS \div k) : k \in 1..MaxSmall}
NearDurations ==
  {Big(c + j) :
     c \in {BLOCKS_PER_DAY * days : days \in FormDays} \cup {50000, MPS_TOTAL_UNITS},
     j \in (0 - Window)..Window}
PowerDurations ==
  {BigAdd(BigShl(One, k), Big(j)) :
     k \in {MPS_BITS, 31, 32, BLOCK_DELTA_BITS, BLOCK_DELTA_BITS + 1},
     j \in (0 - Window)..Window}
FarDurations ==
  {BigAdd(BigShl(One, BLOCK_DELTA_BITS + 1), Big(MPS_TOTAL_UNITS + j)) : j \in 0..Window}
Durations ==
  SmallDurations \cup QuotientDurations \cup NearDurations \cup PowerDurations
  \cup FarDurations

\* The durations of the caller that keeps results.
CallDurations ==
  {Zero, One, Big(3), Big(BLOCKS_PER_DAY), Big(50000), Big(MPS_TOTAL_UNITS),
   Big(MPS_TOTAL_UNITS + 1), MAX_BLOCK_DELTA, BigAdd(MAX_BLOCK_DELTA, One)}

\* Values of MPS_TOTAL around the multiples of the largest 24-bit rate.
Totals ==
  {MPS_TOTAL}
  \cup {BigAdd(BigMul(MAX_MPS, Big(k)), Big(j)) : k \in 1..3, j \in (0 - Window)..Window}

\* ------------------------------------------- encodeLinearAuctionSteps, steps

NoMemo == [called |-> FALSE]

\* The state of the locals before they are declared.
EncoderLocalsFresh ==
  /\ baseMps = Zero
  /\ remainder = Zero
  /\ steps = <<>>
  /\ totalMps = Zero
  /\ encoded = <<>>
  /\ thrown = NoError

\* if (durationInBlocks <= 0n) throw ...; if (durationInBlocks > MAX_BLOCK_DELTA) throw ...
Validate ==
  /\ pc = "validate"
  /\ thrown' = ValidateDuration(durationInBlocks)
  /\ pc' = IF thrown' = NoError THEN "divide" ELSE "thrown"
  /\ UNCHANGED <<durationInBlocks, baseMps, remainder, steps, totalMps, encoded>>
  /\ UNCHANGED <<mpsTotal, memo, submission, tokenVars, factoryVars, uiVars>>

\* const baseMps = MPS_TOTAL / durationInBlocks; const remainder = MPS_TOTAL % durationInBlocks
Divide ==
  /\ pc = "divide"
  /\ IF durationInBlocks = Zero
     THEN /\ thrown' = ErrDivZero
          /\ pc' = "thrown"
          /\ UNCHANGED <<baseMps, remainder>>
     ELSE /\ baseMps' = BaseMpsOf(mpsTotal, durationInBlocks)
          /\ remainder' = RemainderOf(mpsTotal, durationInBlocks)
          /\ pc' = "checkMps"
          /\ UNCHANGED thrown
  /\ UNCHANGED <<durationInBlocks, steps, totalMps, encoded>>
  /\ UNCHANGED <<mpsTotal, memo, submission, tokenVars, factoryVars, uiVars>>

\* if (baseMps > MAX_MPS || baseMps + 1n > MAX_MPS) throw ...
CheckMps ==
  /\ pc = "checkMps"
  /\ thrown' = ValidateMps(baseMps)
  /\ pc' = IF thrown' = NoError THEN "build" ELSE "thrown"
  /\ UNCHANGED <<durationInBlocks, baseMps, remainder, steps, totalMps, encoded>>
  /\ UNCHANGED <<mpsTotal, memo, submission, tokenVars, factoryVars, uiVars>>

\* let steps = []; if (remainder === 0n) ... else ...
Build ==
  /\ pc = "build"
  /\ steps' = BuildSteps(durationInBlocks, baseMps, remainder)
  /\ pc' = "verify"
  /\ UNCHANGED <<durationInBlocks, baseMps, remainder, totalMps, encoded, thrown>>
  /\ UNCHANGED <<mpsTotal, memo, submission, tokenVars, factoryVars, uiVars>>

\* the total of mps * blockDelta; if (totalMps !== MPS_TOTAL) throw ...
Verify ==
  /\ pc = "verify"
  /\ totalMps' = TotalMps(steps)
  /\ IF totalMps' # mpsTotal
     THEN thrown' = ErrMismatch /\ pc' = "thrown"
     ELSE thrown' = thrown /\ pc' = "encode"
  /\ UNCHANGED <<durationInBlocks, baseMps, remainder, steps, encoded>>
  /\ UNCHANGED <<mpsTotal, memo, submission, tokenVars, factoryVars, uiVars>>

\* let encoded = '0x'; the encoding loop; return encoded
Encode ==
  /\ pc = "encode"
  /\ encoded' = EncodeSteps(steps)
  /\ pc' = "returned"
  /\ UNCHANGED <<durationInBlocks, baseMps, remainder, steps, totalMps, thrown>>
  /\ UNCHANGED <<mpsTotal, memo, submission, tokenVars, factoryVars, uiVars>>

\* The next call: the function keeps nothing from one call to the next.
Call ==
  /\ pc \in {"returned", "thrown"}
  /\ \E d \in Durations :
       /\ durationInBlocks' = d
       /\ pc' = "validate"
       /\ baseMps' = Zero
       /\ remainder' = Zero
       /\ steps' = <<>>
       /\ totalMps' = Zero
       /\ encoded' = <<>>
       /\ thrown' = NoError
  /\ UNCHANGED <<mpsTotal, memo, submission, tokenVars, factoryVars, uiVars>>

\* A caller that calls again and may keep what the call that ended gave.  The
\* locals are left as the call that ended left them: each is declared anew by
\* the step that uses it.
Outcome ==
  IF pc = "returned" THEN [ok |-> TRUE, value |-> encoded]
  ELSE [ok |-> FALSE, value |-> thrown]

KeptOfCall ==
  [called |-> TRUE,
   d |-> durationInBlocks,
   outcome |-> Outcome,
   divided |-> pc = "returned" \/ thrown \in {ErrMps, ErrMismatch},
   baseMps |-> baseMps,
   interleaved |-> FALSE]

CallKeeping ==
  /\ pc \in {"returned", "thrown"}
  /\ \E d \in CallDurations :
       /\ durationInBlocks' = d
       /\ pc' = "validate"
  /\ \/ memo' = KeptOfCall
     \/ /\ memo.called
        /\ memo' = [memo EXCEPT !.interleaved = @ \/ durationInBlocks # memo.d]
     \/ /\ ~memo.called
        /\ memo' = memo
  /\ UNCHANGED <<baseMps, remainder, steps, totalMps, encoded, thrown>>
  /\ UNCHANGED <<mpsTotal, submission, tokenVars, factoryVars, uiVars>>

\* The next call under another value of MPS_TOTAL.
CallSmall ==
  /\ pc \in {"returned", "thrown"}
  /\ \E d \in SmallDurations :
       /\ durationInBlocks' = d
       /\ pc' = "validate"
       /\ baseMps' = Zero
       /\ remainder' = Zero
       /\ steps' = <<>>
       /\ totalMps' = Zero
       /\ encoded' = <<>>
       /\ thrown' = NoError
  /\ UNCHANGED <<mpsTotal, memo, submission, tokenVars, factoryVars, uiVars>>

\* -------------------------------------------------- the create-auction form

DecChars == <<"0", "1", "2", "3", "4", "5", "6", "7", "8", "9">>

IsDecChar(c) == \E i \in 1..10 : DecChars[i] = c

DecVal(c) == (CHOOSE i \in 1..10 : DecChars[i] = c) - 1

\* The longest run of decimal digits of s that starts at position i.
RECURSIVE DigitsFrom(_, _)
DigitsFrom(s, i) ==
  IF i > Len(s) THEN <<>>
  ELSE IF ~IsDecChar(s[i]) THEN <<>>
  ELSE <<s[i]>> \o DigitsFrom(s, i + 1)

\* The magnitude of the decimal digits s[i..Len(s)] written after the
\* magnitude acc.
RECURSIVE DecimalFrom(_, _, _)
DecimalFrom(s, i, acc) ==
  IF i > Len(s) THEN acc
  ELSE LET next == MagAdd(MagMulDigit(acc, 10), MagOfNat(DecVal(s[i])))
       IN  \* next is computed before the digit after it is read
           IF next # <<>> THEN DecimalFrom(s, i + 1, next)
           ELSE DecimalFrom(s, i + 1, <<>>)

\* BigInt(<decimal digits>)
BigOfDecimal(s) == BigOfMag(FALSE, DecimalFrom(s, 1, <<>>))

NaN == [nan |-> TRUE]

\* parseInt(s) of a string of an optional sign and decimal digits: the value
\* of the leading digits, NaN without one.
ParseInt(s) ==
  LET signed == Len(s) > 0 /\ s[1] \in {"-", "+"}
      ds == DigitsFrom(s, IF signed THEN 2 ELSE 1)
      v == BigOfDecimal(ds)
  IN  IF ds = <<>> THEN NaN
      ELSE [nan |-> FALSE, value |-> IF signed /\ s[1] = "-" THEN BigNeg(v) ELSE v]

\* n characters '0'
Zeros(n) == [i \in 1..n |-> "0"]

ETHER_DECIMALS == 18

\* 10^n, n in 0..18: the integer that '1' padded with n characters '0' reads as.
PowersOfTen == [n \in 0..ETHER_DECIMALS |-> BigOfDecimal(<<"1">> \o Zeros(n))]

\* parseUnits(s, decimals) of '<digits>' or '<digits>.<digits>' with at most
\* `decimals` digits after the point: the digits before the point followed by
\* the digits after it, padded with '0' to `decimals` of them, read as a
\* decimal integer (each '0' of the padding a factor of ten).
ParseUnits(s, decimals) ==
  LET whole == DigitsFrom(s, 1)
      dot == Len(whole) + 1
      fraction == IF dot <= Len(s) /\ s[dot] = "." THEN DigitsFrom(s, dot + 1) ELSE <<>>
  IN  BigMul(BigOfDecimal(whole \o fraction), PowersOfTen[decimals - Len(fraction)])

\* parseEther(s)
ParseEther(s) == ParseUnits(s, ETHER_DECIMALS)

START_BLOCK_OFFSET == 300
CLAIM_BLOCK_OFFSET == 100
TICK_SPACING_DIVISOR == 100
UINT128_BITS == 128

\* BigInt(4294967296)
MIN_FLOOR_PRICE ==
  BigOfDecimal(<<"4", "2", "9", "4", "9", "6", "7", "2", "9", "6">>)

MIN_TICK_SPACING == Big(2)

MAX_UINT128 == BigSub(BigShl(One, UINT128_BITS), One)

AlertConnect == "Please connect your wallet first"
AlertNoBlock == "Unable to fetch current block number"
AlertUint128 == "Required currency raised exceeds maximum allowed value (uint128)"
ErrNaN == "The number NaN cannot be converted to a BigInt because it is not an integer"

\* What a call encodeLinearAuctionSteps(d) gives, with MPS_TOTAL = total: the
\* error thrown, or the string returned.
EncodeResult(total, d) ==
  IF ValidateDuration(d) # NoError
  THEN [thrown |-> ValidateDuration(d), encoded |-> <<>>]
  ELSE LET base == BaseMpsOf(total, d)
           rem == RemainderOf(total, d)
           ss == BuildSteps(d, base, rem)
       IN  IF ValidateMps(base) # NoError
           THEN [thrown |-> ValidateMps(base), encoded |-> <<>>]
           ELSE IF TotalMps(ss) # total
           THEN [thrown |-> ErrMismatch, encoded |-> <<>>]
           ELSE [thrown |-> NoError, encoded |-> EncodeSteps(ss)]

\* The call of encodeLinearAuctionSteps leaves the try block.
StepsDataThrows_Ignored(stepsData) == FALSE

StepsDataThrows(stepsData) == stepsData.thrown # NoError

NoParams == [none |-> TRUE]

\* alert(msg); return
Alerted(msg) == [alerts |-> <<msg>>, called |-> FALSE, params |-> NoParams]

\* catch (err) { alert(`Error: ${err.message}`) }
Caught(msg) == [alerts |-> <<"Error: " \o msg>>, called |-> FALSE, params |-> NoParams]

\* createAuction({ functionName: 'initializeDistribution', args })
Created(params) == [alerts |-> <<>>, called |-> TRUE, params |-> params]

\* const endBlock = startBlock + BigInt(durationInBlocks), with a variant that
\* counts the start block inside the span.
EndBlockOf_Inclusive(startBlock, blocks) ==
  BigSub(BigAdd(startBlock, blocks), One)

EndBlockOf(startBlock, blocks) == BigAdd(startBlock, blocks)

\* const floorPrice = userFloorPrice > MIN_FLOOR_PRICE ? userFloorPrice :
\* MIN_FLOOR_PRICE, with a variant that keeps what the user entered.
FloorPriceOf_NoMinimum(userFloorPrice) == userFloorPrice

FloorPriceOf(userFloorPrice) ==
  IF BigGt(userFloorPrice, MIN_FLOOR_PRICE) THEN userFloorPrice ELSE MIN_FLOOR_PRICE

\* let tickSpacing = floorPrice / BigInt(100);
\* if (tickSpacing < MIN_TICK_SPACING) tickSpacing = MIN_TICK_SPACING
TickSpacingOf(floorPrice) ==
  LET onePercent == BigDiv(floorPrice, Big(TICK_SPACING_DIVISOR))
  IN  IF BigGt(MIN_TICK_SPACING, onePercent) THEN MIN_TICK_SPACING ELSE onePercent

\* handleSubmit with formData = form, isConnected && address = isConnected and
\* currentBlock the block number the client gave (bigint, or undefined).  The
\* CREATE2 salt, not a function of the form, is left out of params.
SubmitOutcome(form, isConnected, currentBlock) ==
  IF ~isConnected THEN Alerted(AlertConnect)
  ELSE IF ~currentBlock.defined \/ currentBlock.value = Zero THEN Alerted(AlertNoBlock)
  ELSE
    LET durationInDays == ParseInt(form.duration) IN
    IF durationInDays.nan THEN Caught(ErrNaN)
    ELSE
      LET blocks == BigMul(Big(BLOCKS_PER_DAY), durationInDays.value)
          startBlock == BigAdd(currentBlock.value, Big(START_BLOCK_OFFSET))
          endBlock == EndBlockOf(startBlock, blocks)
          claimBlock == BigAdd(endBlock, Big(CLAIM_BLOCK_OFFSET))
          userFloorPrice == ParseEther(form.floorPrice)
          floorPrice == FloorPriceOf(userFloorPrice)
          tickSpacing == TickSpacingOf(floorPrice)
          requiredCurrencyRaised == ParseEther(form.requiredCurrencyRaised)
          stepsData == EncodeResult(MPS_TOTAL, blocks)
      IN  IF StepsDataThrows(stepsData) THEN Caught(stepsData.thrown)
          ELSE IF BigGt(requiredCurrencyRaised, MAX_UINT128) THEN Alerted(AlertUint128)
          ELSE Created([startBlock |-> startBlock,
                        endBlock |-> endBlock,
                        claimBlock |-> claimBlock,
                        tickSpacing |-> tickSpacing,
                        floorPrice |-> floorPrice,
                        requiredCurrencyRaised |-> requiredCurrencyRaised,
                        auctionStepsData |-> stepsData.encoded,
                        totalSupplyInWei |-> ParseUnits(form.totalSupply, ETHER_DECIMALS)])

\* useState({ ..., totalSupply: '', floorPrice: '0.00001', duration: '7',
\* requiredCurrencyRaised: '0.001' })
DefaultForm ==
  [duration |-> <<"7">>,
   floorPrice |-> <<"0", ".", "0", "0", "0", "0", "1">>,
   requiredCurrencyRaised |-> <<"0", ".", "0", "0", "1">>,
   totalSupply |-> <<>>]

\* The values a change event gives a field.  The options of the duration are
\* 1, 3, 7, 14 and 30 days; handleChange stores whatever value the event
\* carries, so 0, -1, the empty string and 152709949 days (the first count of
\* days above 2^40 - 1 blocks) are among them.
FieldValues ==
  [duration |->
     {<<"1">>, <<"3">>, <<"7">>, <<"1", "4">>, <<"3", "0">>,
      <<"0">>, <<"-", "1">>, <<>>,
      <<"1", "5", "2", "7", "0", "9", "9", "4", "9">>},
   floorPrice |->
     {<<"0">>, <<"0", ".", "0", "0", "0", "0", "1">>,
      <<"0", ".">> \o Zeros(8) \o <<"4", "2", "9", "4", "9", "6", "7", "2", "9", "6">>,
      <<"0", ".">> \o Zeros(8) \o <<"4", "2", "9", "4", "9", "6", "7", "2", "9", "7">>},
   requiredCurrencyRaised |->
     {<<"0">>, <<"0", ".", "0", "0", "1">>,
      <<"3", "4", "0", "2", "8", "2", "3", "6", "6", "9", "2", "0", "9", "3", "8",
        "4", "6", "3", "4", "6", "4">>},
   totalSupply |->
     {<<>>, <<"1", "0", "0", "0", "0", "0", "0">>}]

FormFields == DOMAIN FieldValues

Undefined == [defined |-> FALSE, value |-> Zero]

\* What publicClient?.getBlockNumber() resolves to.
CurrentBlocks ==
  {Undefined}
  \cup {[defined |-> TRUE, value |-> b] : b \in {Zero, Big(1000), Big(9500000)}}

\* No run of handleSubmit on the form as it stands, the state after mounting.
NoSubmission == [form |-> DefaultForm, ran |-> FALSE]

\* handleChange: setFormData({ ...formData, [e.target.name]: e.target.value })
HandleChange ==
  /\ \E name \in FormFields :
       \E value \in FieldValues[name] :
         /\ value # submission.form[name]
         /\ submission' = [form |-> [submission.form EXCEPT ![name] = value],
                           ran |-> FALSE]
  /\ UNCHANGED <<encoderVars, tokenVars, factoryVars, uiVars>>

\* handleSubmit, from the event to its return.  The block number is asked for
\* once the wallet is found connected.
HandleSubmit ==
  /\ \E isConnected \in BOOLEAN :
       \E currentBlock \in (IF isConnected THEN CurrentBlocks ELSE {Undefined}) :
         LET outcome == SubmitOutcome(submission.form, isConnected, currentBlock)
         IN  submission' = [form |-> submission.form,
                            ran |-> TRUE,
                            isConnected |-> isConnected,
                            currentBlock |-> currentBlock,
                            alerts |-> outcome.alerts,
                            called |-> outcome.called,
                            params |-> outcome.params]
  /\ UNCHANGED <<encoderVars, tokenVars, factoryVars, uiVars>>

SubmitIdle == submission = NoSubmission

\* The encoder is not running.
EncoderIdle ==
  /\ pc = "idle"
  /\ durationInBlocks = Zero
  /\ EncoderLocalsFresh
  /\ mpsTotal = MPS_TOTAL
  /\ memo = NoMemo

\* ------------------------------------------------------------ FactoryERC20

\* uint256 is modelled as 0..UintMax; unchecked arithmetic wraps at UintMax + 1.
UintMax == 2

Modulus == UintMax + 1

Values == 0..UintMax

ZeroAddress == "0x0"

Accounts == {"alice", "bob"}

Addresses == Accounts \cup {ZeroAddress}

NoRevert == ""
ErrZeroRecipient == "FactoryERC20: zero recipient"
ErrInsufficientBalance == "FactoryERC20: insufficient balance"
ErrInsufficientAllowance == "FactoryERC20: insufficient allowance"

\* unchecked { a -= b }, unchecked { a += b }
UncheckedSub(a, b) == (a - b + Modulus) % Modulus

UncheckedAdd(a, b) == (a + b) % Modulus

\* transfer without its second require.
TransferResult_NoBalanceCheck(sender, to, value) ==
  IF to = ZeroAddress THEN ErrZeroRecipient ELSE NoRevert

\* The requires of transfer: the reason of the revert, or NoRevert.
TransferResult(sender, to, value) ==
  IF to = ZeroAddress THEN ErrZeroRecipient
  ELSE IF ~(balanceOf[sender] >= value) THEN ErrInsufficientBalance
  ELSE NoRevert

\* transferFrom with the allowance required before the balance.
TransferFromResult_AllowanceFirst(spender, from, to, value) ==
  IF to = ZeroAddress THEN ErrZeroRecipient
  ELSE IF ~(allowance[from][spender] >= value) THEN ErrInsufficientAllowance
  ELSE IF ~(balanceOf[from] >= value) THEN ErrInsufficientBalance
  ELSE NoRevert

\* The requires of transferFrom: the reason of the revert, or NoRevert.
TransferFromResult(spender, from, to, value) ==
  IF to = ZeroAddress THEN ErrZeroRecipient
  ELSE IF ~(balanceOf[from] >= value) THEN ErrInsufficientBalance
  ELSE IF ~(allowance[from][spender] >= value) THEN ErrInsufficientAllowance
  ELSE NoRevert

\* transferFrom leaving the allowance as it was.
AllowanceAfter_Kept(currentAllowance, value) == currentAllowance

\* unchecked { allowance[from][msg.sender] = currentAllowance - value }
AllowanceAfter(currentAllowance, value) == UncheckedSub(currentAllowance, value)

\* unchecked { balanceOf[from] -= value; balanceOf[to] += value }
BalancesAfter(from, to, value) ==
  LET debited == [balanceOf EXCEPT ![from] = UncheckedSub(@, value)]
  IN  [debited EXCEPT ![to] = UncheckedAdd(@, value)]

\* What is kept of the last call: the function, whether it returned, the
\* reason of the revert, what held when it was made (the recipient the zero
\* address, the source balance below value, the allowance below value),
\* whether the addition to the recipient's balance went past UintMax, and
\* whether a balance or an allowance changed.
TxRecord(fn, reason, toZero, balanceShort, allowanceShort, wrapped, changed) ==
  [fn |-> fn, ok |-> reason = NoRevert, reason |-> reason,
   toZero |-> toZero, balanceShort |-> balanceShort,
   allowanceShort |-> allowanceShort, wrapped |-> wrapped, changed |-> changed]

NoAllowances == [owner \in Addresses |-> [spender \in Addresses |-> 0]]

\* constructor(_name, _symbol, _initialSupply, _recipient), _recipient not the
\* zero address: totalSupply is the product _initialSupply * 10 ** decimals
\* (any value of uint256 that the checked product gives), all of it the
\* recipient's.
Constructed(supply, recipient) ==
  /\ totalSupply = supply
  /\ balanceOf = [a \in Addresses |-> IF a = recipient THEN supply ELSE 0]
  /\ allowance = NoAllowances
  /\ lastTx = TxRecord("constructor", NoRevert, FALSE, FALSE, FALSE, FALSE, TRUE)
  /\ tokenHistory = [supply |-> supply, approved |-> NoAllowances, moved |-> NoAllowances]

\* transfer(to, value) called by sender
Transfer(sender, to, value) ==
  LET reason == TransferResult(sender, to, value)
      reverted == reason # NoRevert
      after == IF reverted THEN balanceOf ELSE BalancesAfter(sender, to, value)
  IN  /\ balanceOf' = after
      /\ lastTx' = TxRecord("transfer", reason, to = ZeroAddress,
                            balanceOf[sender] < value, FALSE,
                            ~reverted /\ sender # to /\ balanceOf[to] + value > UintMax,
                            after # balanceOf)
      /\ UNCHANGED <<totalSupply, allowance, tokenHistory>>

\* transferFrom(from, to, value) called by spender
TransferFrom(spender, from, to, value) ==
  LET reason == TransferFromResult(spender, from, to, value)
      reverted == reason # NoRevert
      currentAllowance == allowance[from][spender]
      allowed == IF reverted THEN allowance
                 ELSE [allowance EXCEPT ![from][spender] = AllowanceAfter(currentAllowance, value)]
      after == IF reverted THEN balanceOf ELSE BalancesAfter(from, to, value)
  IN  /\ allowance' = allowed
      /\ balanceOf' = after
      /\ lastTx' = TxRecord("transferFrom", reason, to = ZeroAddress,
                            balanceOf[from] < value, currentAllowance < value,
                            ~reverted /\ from # to /\ balanceOf[to] + value > UintMax,
                            after # balanceOf \/ allowed # allowance)
      /\ tokenHistory' = IF reverted THEN tokenHistory
                         ELSE [tokenHistory EXCEPT !.moved[from][spender] = @ + value]
      /\ UNCHANGED totalSupply

\* approve(spender, value) called by owner
Approve(owner, spender, value) ==
  /\ allowance' = [allowance EXCEPT ![owner][spender] = value]
  /\ lastTx' = TxRecord("approve", NoRevert, FALSE, FALSE, FALSE, FALSE,
                        allowance' # allowance)
  /\ tokenHistory' = [tokenHistory EXCEPT !.approved[owner][spender] = value,
                                          !.moved[owner][spender] = 0]
  /\ UNCHANGED <<totalSupply, balanceOf>>

\* The calls of the token, each from an account; a call to approve names
\* another account as the spender.
TransferCall ==
  /\ \E sender \in Accounts, to \in Addresses, value \in Values :
       Transfer(sender, to, value)
  /\ UNCHANGED <<encoderVars, submission, factoryVars, uiVars>>

TransferFromCall ==
  /\ \E spender \in Accounts, from \in Accounts, to \in Addresses, value \in Values :
       TransferFrom(spender, from, to, value)
  /\ UNCHANGED <<encoderVars, submission, factoryVars, uiVars>>

ApproveCall ==
  /\ \E owner \in Accounts :
       \E spender \in Accounts \ {owner}, value \in Values :
         Approve(owner, spender, value)
  /\ UNCHANGED <<encoderVars, submission, factoryVars, uiVars>>

\* No token is deployed.
TokenIdle ==
  /\ totalSupply = 0
  /\ balanceOf = <<>>
  /\ allowance = <<>>
  /\ lastTx = <<>>
  /\ tokenHistory = <<>>

\* ------------------------------------------------------- SimpleTokenFactory

\* The most deployments of a run.
MaxDeployments == 3

TOKEN_DECIMALS == 18
UINT256_BITS == 256

MAX_UINT256 == BigSub(BigShl(One, UINT256_BITS), One)

ErrNameRequired == "SimpleTokenFactory: name required"
ErrSymbolRequired == "SimpleTokenFactory: symbol required"
ErrFactoryZeroRecipient == "SimpleTokenFactory: zero recipient"
ErrPanicOverflow == "Panic(0x11)"

\* 0, 1,000,000, 2^196 and 2^197 (the first power of two whose product with
\* 10^18 is past 2^256) and the largest uint256.
InitialSupplies ==
  {Zero, Big(1000000), BigShl(One, 196), BigShl(One, 197), MAX_UINT256}

\* _initialSupply * 10 ** decimals, as an integer, for the supplies above.
ScaledSupply ==
  [initialSupply \in InitialSupplies |->
     BigMul(initialSupply, PowersOfTen[TOKEN_DECIMALS])]

\* The constructor of FactoryERC20: its require, and the checked product
\* _initialSupply * 10 ** decimals, which panics when it is past the largest
\* uint256.
ConstructorResult(initialSupply, recipient) ==
  IF recipient = ZeroAddress THEN ErrZeroRecipient
  ELSE IF BigGt(ScaledSupply[initialSupply], MAX_UINT256) THEN ErrPanicOverflow
  ELSE NoRevert

\* deployToken without its second require.
DeployResult_NoSymbolCheck(name, symbol, initialSupply, recipient) ==
  IF name = "" THEN ErrNameRequired
  ELSE IF recipient = ZeroAddress THEN ErrFactoryZeroRecipient
  ELSE ConstructorResult(initialSupply, recipient)

\* The requires of deployToken and the creation of the token: the reason of
\* the revert, or NoRevert.
DeployResult(name, symbol, initialSupply, recipient) ==
  IF name = "" THEN ErrNameRequired
  ELSE IF symbol = "" THEN ErrSymbolRequired
  ELSE IF recipient = ZeroAddress THEN ErrFactoryZeroRecipient
  ELSE ConstructorResult(initialSupply, recipient)

\* address(token) of the contract the factory creates at the given nonce.
TokenAddressAt(nonce) == <<"token", nonce>>

Names == {"", "Token"}

Symbols == {"", "TKN"}

\* deployToken(name, symbol, initialSupply, recipient) called by deployer.  A
\* call that reverts leaves the storage and the nonce of the factory as they
\* were.
DeployToken(deployer, name, symbol, initialSupply, recipient) ==
  LET reason == DeployResult(name, symbol, initialSupply, recipient)
      reverted == reason # NoRevert
      tokenAddress == TokenAddressAt(factoryNonce)
      deployed == IF reverted THEN deployedTokens ELSE Append(deployedTokens, tokenAddress)
      byDeployer == IF reverted THEN tokensByDeployer
                    ELSE [tokensByDeployer EXCEPT ![deployer] = Append(@, tokenAddress)]
  IN  /\ ~reverted => Len(deployedTokens) < MaxDeployments
      /\ deployedTokens' = deployed
      /\ tokensByDeployer' = byDeployer
      /\ factoryNonce' = IF reverted THEN factoryNonce ELSE factoryNonce + 1
      /\ factoryHistory' = IF reverted THEN factoryHistory
                           ELSE Append(factoryHistory,
                                       [deployer |-> deployer, token |-> tokenAddress])
      /\ lastDeploy' = [deployer |-> deployer,
                        ok |-> ~reverted,
                        reason |-> reason,
                        emptyName |-> name = "",
                        emptySymbol |-> symbol = "",
                        zeroRecipient |-> recipient = ZeroAddress,
                        changed |-> deployed # deployedTokens \/ byDeployer # tokensByDeployer]

DeployTokenCall ==
  /\ \E deployer \in Accounts, name \in Names, symbol \in Symbols,
        initialSupply \in InitialSupplies, recipient \in Addresses :
       DeployToken(deployer, name, symbol, initialSupply, recipient)
  /\ UNCHANGED <<encoderVars, submission, tokenVars, uiVars>>

\* The factory after its deployment: no token, its nonce 1.
FactoryDeployed ==
  /\ deployedTokens = <<>>
  /\ tokensByDeployer = [a \in Addresses |-> <<>>]
  /\ factoryNonce = 1
  /\ factoryHistory = <<>>
  /\ lastDeploy = [deployer |-> ZeroAddress, ok |-> TRUE, reason |-> NoRevert,
                   emptyName |-> FALSE, emptySymbol |-> FALSE,
                   zeroRecipient |-> FALSE, changed |-> FALSE]

\* getDeployedTokenCount(), getDeployedTokens(), getTokenCountByDeployer(d),
\* getTokensByDeployer(d)
GetDeployedTokenCount == Len(deployedTokens)

GetDeployedTokens == deployedTokens

GetTokenCountByDeployer(deployer) == Len(tokensByDeployer[deployer])

GetTokensByDeployer(deployer) == tokensByDeployer[deployer]

\* No factory is deployed.
FactoryIdle ==
  /\ deployedTokens = <<>>
  /\ tokensByDeployer = <<>>
  /\ factoryNonce = 0
  /\ factoryHistory = <<>>
  /\ lastDeploy = <<>>

\* ------------------------------------------- the create page after the form

\* A pair useWriteContract / useWaitForTransactionReceipt stands in one of
\*   "idle"        writeContract was not called
\*   "pending"     writeContract was called, the wallet has not answered
\*   "rejected"    the wallet answered with an error, there is no hash
\*   "confirming"  the hash is known, the receipt is awaited
\*   "success"     the receipt of the transaction has come
\*   "failed"      waiting for the receipt ended in an error (a revert)

\* isPending of useWriteContract
IsPending(phase) == phase = "pending"
\* isLoading of useWaitForTransactionReceipt
IsConfirming(phase) == phase = "confirming"
\* isSuccess of useWaitForTransactionReceipt
IsSuccess(phase) == phase = "success"

\* The forms the page is submitted with, the token address the form holds.
SetupForms ==
  {[DefaultForm EXCEPT !.duration = d, !.totalSupply = s] :
     d \in {<<"7">>, <<"0">>}, s \in FieldValues.totalSupply}
TokenAddresses == {"", "0xToken"}

\* What handleSubmit does with each of these forms, the wallet connected, at
\* block 1000.
SetupOutcome ==
  [form \in SetupForms |->
     SubmitOutcome(form, TRUE, [defined |-> TRUE, value |-> Big(1000)])]

AlertMissing == "Missing required information"
AlertNoAuction == "Auction address not found"

\* The page as it is first rendered.  writes, lastWrite and alert keep what
\* the handlers did: the number of calls of writeContract, the function of
\* the last one, the last alert.  createWrite is the number of the call the
\* creation hook stands for, deployedAuctionAddress the number of the creation
\* whose receipt gave the address, 0 for null.
NoSetup ==
  [isConnected |-> FALSE,
   form |-> DefaultForm,
   tokenAddress |-> "",
   create |-> "idle",
   createWrite |-> 0,
   transfer |-> "idle",
   activate |-> "idle",
   deployedAuctionAddress |-> 0,
   writes |-> 0,
   lastWrite |-> "none",
   alert |-> ""]

\* disabled={!isConnected || isCreatePending || isCreateConfirming}
SubmitEnabled(s) ==
  ~(~s.isConnected \/ IsPending(s.create) \/ IsConfirming(s.create))

\* {isCreateSuccess && deployedAuctionAddress && ( ... the two steps ... )}
HelperShown(s) == IsSuccess(s.create) /\ s.deployedAuctionAddress # 0

\* disabled={isTransferPending || isTransferConfirming || isTransferSuccess}
TransferEnabled(s) ==
  /\ HelperShown(s)
  /\ ~(IsPending(s.transfer) \/ IsConfirming(s.transfer) \/ IsSuccess(s.transfer))

\* ActivateEnabled without !isTransferSuccess in the disabled attribute.
ActivateEnabled_NoTransferCheck(s) ==
  /\ HelperShown(s)
  /\ ~(IsPending(s.activate) \/ IsConfirming(s.activate) \/ IsSuccess(s.activate))

\* disabled={!isTransferSuccess || isActivatePending || isActivateConfirming ||
\* isActivateSuccess}
ActivateEnabled(s) ==
  /\ HelperShown(s)
  /\ ~(~IsSuccess(s.transfer) \/ IsPending(s.activate) \/ IsConfirming(s.activate)
       \/ IsSuccess(s.activate))

\* The wallet connects or disconnects.
ConnectWallet ==
  /\ ~setup.isConnected
  /\ setup' = [setup EXCEPT !.isConnected = TRUE]
  /\ UNCHANGED <<encoderVars, submission, tokenVars, factoryVars, auctions>>

DisconnectWallet ==
  /\ setup.isConnected
  /\ setup' = [setup EXCEPT !.isConnected = FALSE]
  /\ UNCHANGED <<encoderVars, submission, tokenVars, factoryVars, auctions>>

\* handleChange on the page: the duration and the supply of the form, the
\* token address.
ChangeSetupForm ==
  /\ \E form \in SetupForms :
       /\ form # setup.form
       /\ setup' = [setup EXCEPT !.form = form]
  /\ UNCHANGED <<encoderVars, submission, tokenVars, factoryVars, auctions>>

ChangeTokenAddress ==
  /\ \E a \in TokenAddresses :
       /\ a # setup.tokenAddress
       /\ setup' = [setup EXCEPT !.tokenAddress = a]
  /\ UNCHANGED <<encoderVars, submission, tokenVars, factoryVars, auctions>>

\* The form is submitted: handleSubmit, which ends in an alert or in
\* createAuction(...).  A new call of writeContract clears the hash of the
\* hook, and with it isCreateSuccess.
SubmitCreate ==
  /\ SubmitEnabled(setup)
  /\ LET out == SetupOutcome[setup.form] IN
       IF out.called
       THEN /\ setup.writes < MaxWrites
            /\ setup' = [setup EXCEPT !.create = "pending",
                                      !.createWrite = setup.writes + 1,
                                      !.writes = setup.writes + 1,
                                      !.lastWrite = "initializeDistribution",
                                      !.alert = ""]
       ELSE setup' = [setup EXCEPT !.alert = out.alerts[1]]
  /\ UNCHANGED <<encoderVars, submission, tokenVars, factoryVars, auctions>>

\* handleTransferTokens, from the button of step 1.
ClickTransfer ==
  /\ TransferEnabled(setup)
  /\ IF setup.deployedAuctionAddress = 0 \/ setup.tokenAddress = ""
        \/ setup.form.totalSupply = <<>>
     THEN setup' = [setup EXCEPT !.alert = AlertMissing]
     ELSE /\ setup.writes < MaxWrites
          /\ setup' = [setup EXCEPT !.transfer = "pending",
                                    !.writes = setup.writes + 1,
                                    !.lastWrite = "transfer",
                                    !.alert = ""]
  /\ UNCHANGED <<encoderVars, submission, tokenVars, factoryVars, auctions>>

\* handleActivateAuction, from the button of step 2.
ClickActivate ==
  /\ ActivateEnabled(setup)
  /\ IF setup.deployedAuctionAddress = 0
     THEN setup' = [setup EXCEPT !.alert = AlertNoAuction]
     ELSE /\ setup.writes < MaxWrites
          /\ setup' = [setup EXCEPT !.activate = "pending",
                                    !.writes = setup.writes + 1,
                                    !.lastWrite = "onTokensReceived",
                                    !.alert = ""]
  /\ UNCHANGED <<encoderVars, submission, tokenVars, factoryVars, auctions>>

SetupHooks == {"create", "transfer", "activate"}

\* The wallet signs and sends the transaction of a hook: data becomes the hash.
WalletApproves ==
  /\ \E h \in SetupHooks :
       /\ IsPending(setup[h])
       /\ setup' = [setup EXCEPT ![h] = "confirming"]
  /\ UNCHANGED <<encoderVars, submission, tokenVars, factoryVars, auctions>>

\* The wallet rejects the request of a hook: error is set.
WalletRejects ==
  /\ \E h \in SetupHooks :
       /\ IsPending(setup[h])
       /\ setup' = [setup EXCEPT ![h] = "rejected"]
  /\ UNCHANGED <<encoderVars, submission, tokenVars, factoryVars, auctions>>

\* The receipt of the creation comes, with or without an AuctionCreated log:
\*   if (isCreateSuccess && createReceipt && !deployedAuctionAddress) { ...
\*     if (auctionCreatedLog && auctionCreatedLog.topics[1])
\*       setDeployedAuctionAddress(auctionAddress) }
CreateConfirmed ==
  /\ IsConfirming(setup.create)
  /\ \E hasLog \in BOOLEAN :
       setup' = [setup EXCEPT
                   !.create = "success",
                   !.deployedAuctionAddress =
                     IF setup.deployedAuctionAddress = 0 /\ hasLog
                     THEN setup.createWrite ELSE setup.deployedAuctionAddress]
  /\ UNCHANGED <<encoderVars, submission, tokenVars, factoryVars, auctions>>

\* The receipt of the transfer or of the activation comes.
StepConfirmed ==
  /\ \E h \in {"transfer", "activate"} :
       /\ IsConfirming(setup[h])
       /\ setup' = [setup EXCEPT ![h] = "success"]
  /\ UNCHANGED <<encoderVars, submission, tokenVars, factoryVars, auctions>>

\* Waiting for the receipt of a hook ends in an error.
ReceiptFails ==
  /\ \E h \in SetupHooks :
       /\ IsConfirming(setup[h])
       /\ setup' = [setup EXCEPT ![h] = "failed"]
  /\ UNCHANGED <<encoderVars, submission, tokenVars, factoryVars, auctions>>

SetupIdle == setup = NoSetup

\* ---------------------------------------------------------- the auctions page

\* A value read from the chain: undefined until it is read.
Unknown == [defined |-> FALSE, value |-> 0]
Known(n) == [defined |-> TRUE, value |-> n]

\* !x for a bigint | undefined: undefined and 0n are falsy.
Falsy(x) == ~x.defined \/ x.value = 0

\* getAuctionStatus(totalSupply, startBlock, endBlock, claimBlock, currentBlock)
GetAuctionStatus(supply, startBlock, endBlock, claimBlock, currentBlock) ==
  IF Falsy(supply) \/ supply.value = 0 THEN "inactive"
  ELSE IF Falsy(currentBlock) \/ Falsy(startBlock) \/ Falsy(endBlock) \/ Falsy(claimBlock)
    THEN "pending"
  ELSE IF currentBlock.value < startBlock.value THEN "pending"
  ELSE IF currentBlock.value >= startBlock.value /\ currentBlock.value < endBlock.value
    THEN "active"
  ELSE IF currentBlock.value >= endBlock.value /\ currentBlock.value < claimBlock.value
    THEN "ended"
  ELSE "claimable"

\* What the multicall gives for the selected auction: nothing, or the supply
\* (0 before the activation) and three blocks with startBlock < endBlock <=
\* claimBlock.
Blocks == 0..MaxBlock
AuctionReads ==
  {[totalSupply |-> Unknown, startBlock |-> Unknown, endBlock |-> Unknown,
    claimBlock |-> Unknown]}
  \cup
  {[totalSupply |-> supply, startBlock |-> Known(s), endBlock |-> Known(e),
    claimBlock |-> Known(c)] :
     supply \in {Unknown, Known(0), Known(1)},
     s \in Blocks, e \in Blocks, c \in Blocks}
NoRead == CHOOSE r \in AuctionReads : ~r.startBlock.defined
WellFormed(r) ==
  r.startBlock.defined =>
    r.startBlock.value < r.endBlock.value /\ r.endBlock.value <= r.claimBlock.value

\* The bids of the user as fetchUserBids finds them: exitedBlock and
\* tokensFilled of each.
BidKinds == [exitedBlock : {0, 2}, tokensFilled : {0, 5}]
BidLists ==
  {<<>>} \cup {<<b>> : b \in BidKinds}
  \cup {<<[exitedBlock |-> 0, tokensFilled |-> 5], [exitedBlock |-> 2, tokensFilled |-> 5]>>}

AlertSelect == "Please connect wallet and select an auction"

\* The page as it is first rendered, no auction selected.  writes, lastWrite,
\* lastBid and alert keep what the handlers did: the number of calls of
\* writeContract, the function and the bid of the last one, the last alert.
NoAuctionsPage ==
  [isConnected |-> FALSE,
   selectedAuction |-> FALSE,
   read |-> NoRead,
   currentBlock |-> Unknown,
   userBids |-> <<>>,
   write |-> "idle",
   writes |-> 0,
   lastWrite |-> "none",
   lastBid |-> 0,
   alert |-> ""]

\* const auctionStatus = getAuctionStatus(totalSupply, startBlock, endBlock,
\* claimBlock, currentBlock)
AuctionStatus(a) ==
  GetAuctionStatus(a.read.totalSupply, a.read.startBlock, a.read.endBlock,
                   a.read.claimBlock, a.currentBlock)

\* {!selectedAuction ? ... : isLoadingAuction ? ... : ( the auction )}
AuctionShown(a) == a.selectedAuction

\* PlaceBidEnabled without the status in the disabled attribute.
PlaceBidEnabled_AnyStatus(a) ==
  /\ AuctionShown(a)
  /\ ~(~a.isConnected \/ IsPending(a.write) \/ IsConfirming(a.write))

\* disabled={!isConnected || isPending || isConfirming || auctionStatus !== 'active'}
PlaceBidEnabled(a) ==
  /\ AuctionShown(a)
  /\ ~(~a.isConnected \/ IsPending(a.write) \/ IsConfirming(a.write)
       \/ AuctionStatus(a) # "active")

\* const isExited = userBid.bid.exitedBlock > 0n
IsExited(bid) == bid.exitedBlock > 0

\* const canClaim = auctionStatus === 'claimable' && !isExited &&
\* userBid.bid.tokensFilled > 0n
CanClaim(a, bid) ==
  AuctionStatus(a) = "claimable" /\ ~IsExited(bid) /\ bid.tokensFilled > 0

\* const canExit = (auctionStatus === 'ended' || auctionStatus === 'claimable')
\* && !isExited
CanExit(a, bid) ==
  (AuctionStatus(a) = "ended" \/ AuctionStatus(a) = "claimable") /\ ~IsExited(bid)

\* {isConnected && ( ... userBids.map(...) ... )}: the bids whose buttons are
\* rendered.
BidsShown(a) ==
  IF AuctionShown(a) /\ a.isConnected THEN DOMAIN a.userBids ELSE {}

\* The wallet connects; fetchUserBids runs again for the new address.
AuctionsConnect ==
  /\ ~auctions.isConnected
  /\ \E bids \in BidLists :
       auctions' = [auctions EXCEPT
                      !.isConnected = TRUE,
                      !.userBids = IF auctions.selectedAuction THEN bids ELSE <<>>]
  /\ UNCHANGED <<encoderVars, submission, tokenVars, factoryVars, setup>>

\* The wallet disconnects: if (... || !address) { setUserBids([]); return }
AuctionsDisconnect ==
  /\ auctions.isConnected
  /\ auctions' = [auctions EXCEPT !.isConnected = FALSE, !.userBids = <<>>]
  /\ UNCHANGED <<encoderVars, submission, tokenVars, factoryVars, setup>>

\* saveAuction(addr) with no auction selected before: the auction is selected
\* and its data read; fetchUserBids runs for it.
SelectAuction ==
  /\ ~auctions.selectedAuction
  /\ \E r \in AuctionReads, bids \in BidLists :
       /\ WellFormed(r)
       /\ auctions' = [auctions EXCEPT
                         !.selectedAuction = TRUE,
                         !.read = r,
                         !.userBids = IF auctions.isConnected THEN bids ELSE <<>>]
  /\ UNCHANGED <<encoderVars, submission, tokenVars, factoryVars, setup>>

\* removeAuction(addr) of the only saved auction: setSelectedAuction(null);
\* the reads and the bids are those of no auction.
RemoveAuction ==
  /\ auctions.selectedAuction
  /\ auctions' = [auctions EXCEPT !.selectedAuction = FALSE,
                                  !.read = NoRead,
                                  !.userBids = <<>>]
  /\ UNCHANGED <<encoderVars, submission, tokenVars, factoryVars, setup>>

\* useBlockNumber({ watch: true }): the first block number, then the next.
NewBlock ==
  /\ IF auctions.currentBlock.defined
     THEN /\ auctions.currentBlock.value < MaxBlock
          /\ auctions' = [auctions EXCEPT
                            !.currentBlock = Known(auctions.currentBlock.value + 1)]
     ELSE \E b \in Blocks : auctions' = [auctions EXCEPT !.currentBlock = Known(b)]
  /\ UNCHANGED <<encoderVars, submission, tokenVars, factoryVars, setup>>

\* handlePlaceBid, from the form: an alert, a value parseEther rejects, or
\* writeContract({ functionName: 'submitBid', ... }).
HandlePlaceBid ==
  /\ PlaceBidEnabled(auctions)
  /\ IF ~auctions.isConnected \/ ~auctions.selectedAuction
     THEN auctions' = [auctions EXCEPT !.alert = AlertSelect]
     ELSE \E parses \in BOOLEAN :
            IF parses
            THEN /\ auctions.writes < MaxWrites
                 /\ auctions' = [auctions EXCEPT !.write = "pending",
                                                 !.writes = auctions.writes + 1,
                                                 !.lastWrite = "submitBid",
                                                 !.lastBid = 0,
                                                 !.alert = ""]
            ELSE auctions' = [auctions EXCEPT !.alert = ""]
  /\ UNCHANGED <<encoderVars, submission, tokenVars, factoryVars, setup>>

\* The button Exit Bid of a bid: {canExit && (<button ... disabled={isPending}>)}
ClickExitBid ==
  /\ \E i \in BidsShown(auctions) :
       /\ CanExit(auctions, auctions.userBids[i])
       /\ ~IsPending(auctions.write)
       /\ auctions.writes < MaxWrites
       /\ auctions' = [auctions EXCEPT !.write = "pending",
                                       !.writes = auctions.writes + 1,
                                       !.lastWrite = "exitBid",
                                       !.lastBid = i]
  /\ UNCHANGED <<encoderVars, submission, tokenVars, factoryVars, setup>>

\* The button Claim Tokens of a bid: {canClaim && (<button ... disabled={isPending}>)}
ClickClaimTokens ==
  /\ \E i \in BidsShown(auctions) :
       /\ CanClaim(auctions, auctions.userBids[i])
       /\ ~IsPending(auctions.write)
       /\ auctions.writes < MaxWrites
       /\ auctions' = [auctions EXCEPT !.write = "pending",
                                       !.writes = auctions.writes + 1,
                                       !.lastWrite = "claimTokens",
                                       !.lastBid = i]
  /\ UNCHANGED <<encoderVars, submission, tokenVars, factoryVars, setup>>

\* The wallet answers the request of the page's hook.
BidWalletApproves ==
  /\ IsPending(auctions.write)
  /\ auctions' = [auctions EXCEPT !.write = "confirming"]
  /\ UNCHANGED <<encoderVars, submission, tokenVars, factoryVars, setup>>

BidWalletRejects ==
  /\ IsPending(auctions.write)
  /\ auctions' = [auctions EXCEPT !.write = "rejected"]
  /\ UNCHANGED <<encoderVars, submission, tokenVars, factoryVars, setup>>

\* The receipt comes, or waiting for it fails; when isSuccess changes,
\* fetchUserBids runs again.
BidConfirmed ==
  /\ IsConfirming(auctions.write)
  /\ \E bids \in BidLists :
       auctions' = [auctions EXCEPT
                      !.write = "success",
                      !.userBids = IF auctions.isConnected THEN bids ELSE <<>>]
  /\ UNCHANGED <<encoderVars, submission, tokenVars, factoryVars, setup>>

BidReceiptFails ==
  /\ IsConfirming(auctions.write)
  /\ auctions' = [auctions EXCEPT !.write = "failed"]
  /\ UNCHANGED <<encoderVars, submission, tokenVars, factoryVars, setup>>

AuctionsIdle == auctions = NoAuctionsPage

\* ----------------------------------------------------------- specifications

\* The encoder, called with one duration after the other.
Init ==
  /\ pc = "validate"
  /\ durationInBlocks \in Durations
  /\ EncoderLocalsFresh
  /\ mpsTotal = MPS_TOTAL
  /\ memo = NoMemo
  /\ SubmitIdle
  /\ TokenIdle
  /\ FactoryIdle
  /\ SetupIdle
  /\ AuctionsIdle

Next == Validate \/ Divide \/ CheckMps \/ Build \/ Verify \/ Encode \/ Call

Spec == Init /\ [][Next]_vars

\* The encoder with MPS_TOTAL a parameter.
InitTotal ==
  /\ pc = "validate"
  /\ durationInBlocks \in SmallDurations
  /\ EncoderLocalsFresh
  /\ mpsTotal \in Totals
  /\ memo = NoMemo
  /\ SubmitIdle
  /\ TokenIdle
  /\ FactoryIdle
  /\ SetupIdle
  /\ AuctionsIdle

NextTotal == Validate \/ Divide \/ CheckMps \/ Build \/ Verify \/ Encode \/ CallSmall

SpecTotal == InitTotal /\ [][NextTotal]_vars

\* The encoder and a caller that keeps the result of an earlier call.
InitCalls ==
  /\ pc = "validate"
  /\ durationInBlocks \in CallDurations
  /\ EncoderLocalsFresh
  /\ mpsTotal = MPS_TOTAL
  /\ memo = NoMemo
  /\ SubmitIdle
  /\ TokenIdle
  /\ FactoryIdle
  /\ SetupIdle
  /\ AuctionsIdle

NextCalls == Validate \/ Divide \/ CheckMps \/ Build \/ Verify \/ Encode \/ CallKeeping

SpecCalls == InitCalls /\ [][NextCalls]_vars

\* The create form: changes of its fields and submissions.
InitSubmit ==
  /\ EncoderIdle
  /\ submission = NoSubmission
  /\ TokenIdle
  /\ FactoryIdle
  /\ SetupIdle
  /\ AuctionsIdle

NextSubmit == HandleChange \/ HandleSubmit

SpecSubmit == InitSubmit /\ [][NextSubmit]_vars

\* One token after its construction, and the calls made to it.
InitToken ==
  /\ EncoderIdle
  /\ SubmitIdle
  /\ \E supply \in Values, recipient \in Accounts : Constructed(supply, recipient)
  /\ FactoryIdle
  /\ SetupIdle
  /\ AuctionsIdle

NextToken == TransferCall \/ TransferFromCall \/ ApproveCall

SpecToken == InitToken /\ [][NextToken]_vars

\* The factory after its deployment, and the calls of deployToken.
InitFactory ==
  /\ EncoderIdle
  /\ SubmitIdle
  /\ TokenIdle
  /\ FactoryDeployed
  /\ SetupIdle
  /\ AuctionsIdle

NextFactory == DeployTokenCall

SpecFactory == InitFactory /\ [][NextFactory]_vars

\* The create page after the form: the wallet, the form, the three buttons
\* and the answers of the wallet and of the chain.
InitSetup ==
  /\ EncoderIdle
  /\ SubmitIdle
  /\ TokenIdle
  /\ FactoryIdle
  /\ setup = NoSetup
  /\ AuctionsIdle

NextSetup ==
  \/ ConnectWallet \/ DisconnectWallet \/ ChangeSetupForm \/ ChangeTokenAddress
  \/ SubmitCreate \/ ClickTransfer \/ ClickActivate
  \/ WalletApproves \/ WalletRejects \/ CreateConfirmed \/ StepConfirmed \/ ReceiptFails

SpecSetup == InitSetup /\ [][NextSetup]_vars

\* The auctions page: the wallet, the selected auction, the blocks as they
\* come, the bid form and the buttons of the user's bids.
InitAuctions ==
  /\ EncoderIdle
  /\ SubmitIdle
  /\ TokenIdle
  /\ FactoryIdle
  /\ SetupIdle
  /\ auctions = NoAuctionsPage

NextAuctions ==
  \/ AuctionsConnect \/ AuctionsDisconnect \/ SelectAuction \/ RemoveAuction \/ NewBlock
  \/ HandlePlaceBid \/ ClickExitBid \/ ClickClaimTokens
  \/ BidWalletApproves \/ BidWalletRejects \/ BidConfirmed \/ BidReceiptFails

SpecAuctions == InitAuctions /\ [][NextAuctions]_vars

\* ------------------------------------------- reading an encoded schedule back

\* The numbers the claims are stated with, written out in decimal.
TenMillion == Big(10000000)
Max24 == Big(16777215)
Max40 == BigAdd(BigMul(Big(1099511), Big(1000000)), Big(627775))
TwoTo40 == BigAdd(Max40, One)

HexVal(c) == CHOOSE v \in HexDigit : HexChars[v + 1] = c

IsHexChar(c) == \E v \in HexDigit : HexChars[v + 1] = c

\* The 8-byte records after "0x", as the contract reads them.
RecordCount(enc) == (Len(enc) - 2) \div 16
RecordAt(enc, k) == SubSeq(enc, 2 + 16 * (k - 1) + 1, 2 + 16 * k)

\* The digits of a record, least significant first.
RecordDigits(rec) == [i \in 1..16 |-> HexVal(rec[17 - i])]

\* The record as a big-endian 64-bit value.
RecordValue(rec) == BigOfMag(FALSE, MagNorm(RecordDigits(rec)))

\* Upper 24 bits and lower 40 bits of a record.
DecodeStep(rec) ==
  [mps |-> BigOfMag(FALSE, MagNorm(SubSeq(RecordDigits(rec), 11, 16))),
   blockDelta |-> BigOfMag(FALSE, MagNorm(SubSeq(RecordDigits(rec), 1, 10)))]

Decode(enc) ==
  IF RecordCount(enc) <= 0 THEN <<>>
  ELSE [k \in 1..RecordCount(enc) |-> DecodeStep(RecordAt(enc, k))]

RECURSIVE SumProducts(_)
SumProducts(ss) ==
  IF ss = <<>> THEN Zero
  ELSE BigAdd(BigMul(Head(ss).mps, Head(ss).blockDelta), SumProducts(Tail(ss)))

RECURSIVE SumDurations(_)
SumDurations(ss) ==
  IF ss = <<>> THEN Zero ELSE BigAdd(Head(ss).blockDelta, SumDurations(Tail(ss)))

Returned == pc = "returned"

\* 10,000,000 div d and 10,000,000 mod d of the duration of the call (d > 0).
QuotOfCall == BigDiv(TenMillion, durationInBlocks)
RemOfCall == BigMod(TenMillion, durationInBlocks)

\* ------------------------------------------------------------------- claims

\* C1: whenever the encoder returns, the steps decoded from the returned bytes
\* have sum(rateUnits * durationUnits) = 10,000,000 exactly, and the encoder's
\* own 'MPS total mismatch' error is never thrown.
C1_TotalExact ==
  /\ Returned => SumProducts(Decode(encoded)) = TenMillion
  /\ thrown # ErrMismatch

\* A two-step schedule returned for the 1-day duration.
C1_Witness ==
  /\ Returned
  /\ durationInBlocks = Big(7200)
  /\ Len(Decode(encoded)) = 2

\* C2: whenever the encoder returns, the durations of the produced steps sum to
\* the requested duration.
C2_DurationExact == Returned => SumDurations(steps) = durationInBlocks

\* A returned schedule for a duration above the total, where the first step
\* has rate 0 and so does not count in the total the encoder re-checks.
C2_Witness ==
  /\ Returned
  /\ BigGt(durationInBlocks, TenMillion)
  /\ Len(steps) = 2
  /\ steps[1].mps = Zero

\* C3: whenever the encoder returns, every step has 0 <= rateUnits <= 16,777,215
\* and 1 <= durationUnits <= 1,099,511,627,775.
C3_FieldRanges ==
  Returned =>
    \A k \in 1..Len(Decode(encoded)) :
      LET st == Decode(encoded)[k]
      IN  /\ steps[k] = st
          /\ BigLe(Zero, st.mps) /\ BigLe(st.mps, Max24)
          /\ BigLe(One, st.blockDelta) /\ BigLe(st.blockDelta, Max40)

\* A returned schedule at the largest duration, whose first step is long.
C3_Witness ==
  /\ Returned
  /\ durationInBlocks = Max40
  /\ Len(steps) = 2
  /\ BigGt(steps[1].blockDelta, BigShl(One, 39))

\* C4: a call with requestedDuration <= 0 throws 'Duration must be positive'
\* and returns nothing, and the division is reached only with a positive
\* duration.
C4_NonPositiveRejected ==
  /\ (BigLe(durationInBlocks, Zero) /\ pc # "validate") =>
       /\ pc = "thrown"
       /\ thrown = ErrPositive
       /\ encoded = <<>>
       /\ steps = <<>>
  /\ pc = "divide" => BigGt(durationInBlocks, Zero)

\* The call with duration 0 has thrown.
C4_Witness ==
  /\ durationInBlocks = Zero
  /\ pc = "thrown"
  /\ thrown = ErrPositive

\* C5: the call with 2^40 - 1 returns a schedule of that very duration, and a
\* call with a duration of 2^40 or more throws the too-large error and builds
\* nothing.
C5_FortyBitBoundary ==
  /\ (durationInBlocks = Max40 /\ pc \in {"returned", "thrown"}) =>
       /\ Returned
       /\ SumDurations(Decode(encoded)) = Max40
  /\ (BigLe(TwoTo40, durationInBlocks) /\ pc # "validate") =>
       /\ pc = "thrown"
       /\ thrown = ErrTooLarge
       /\ encoded = <<>>
       /\ steps = <<>>

\* The call with 2^40 has thrown.
C5_Witness ==
  /\ durationInBlocks = TwoTo40
  /\ pc = "thrown"
  /\ thrown = ErrTooLarge

\* C6: when 10,000,000 mod d = 0 the returned schedule is the one step
\* {10,000,000 div d, d}, and a one-step schedule is returned for no other d.
C6_SingleStep ==
  Returned =>
    /\ RemOfCall = Zero =>
         Decode(encoded) = <<[mps |-> QuotOfCall, blockDelta |-> durationInBlocks]>>
    /\ Len(Decode(encoded)) = 1 => RemOfCall = Zero

\* The one-step schedule {200, 50000}.
C6_Witness ==
  /\ Returned
  /\ durationInBlocks = Big(50000)
  /\ steps = <<[mps |-> Big(200), blockDelta |-> Big(50000)]>>

\* C7: when r = 10,000,000 mod d is not 0, the returned schedule is
\* {q, d - r} then {q + 1, r}, with q = 10,000,000 div d, the first of them
\* left out only if d - r = 0.
C7_TwoSteps ==
  (Returned /\ RemOfCall # Zero) =>
    LET a == [mps |-> QuotOfCall, blockDelta |-> BigSub(durationInBlocks, RemOfCall)]
        b == [mps |-> BigAdd(QuotOfCall, One), blockDelta |-> RemOfCall]
    IN  /\ Decode(encoded) = IF a.blockDelta = Zero THEN <<b>> ELSE <<a, b>>
        /\ steps = Decode(encoded)

\* The schedule for d = 3: {3333333, 2} then {3333334, 1}.
C7_Witness ==
  /\ Returned
  /\ durationInBlocks = Big(3)
  /\ steps = <<[mps |-> Big(3333333), blockDelta |-> Big(2)],
               [mps |-> Big(3333334), blockDelta |-> Big(1)]>>

\* C8: the returned string is "0x" and 16 hex digits for each step, no step
\* taking more than 16 digits, so it holds 8 bytes for one step and 16 bytes for
\* two, and no other length.
C8_EightBytesPerStep ==
  Returned =>
    /\ encoded[1] = "0" /\ encoded[2] = "x"
    /\ \A i \in 3..Len(encoded) : IsHexChar(encoded[i])
    /\ Len(encoded) = 2 + 16 * Len(steps)
    /\ Len(encoded) \in {2 + 16, 2 + 32}
    /\ \A k \in 1..Len(steps) : Len(ToString16(PackedValue(steps[k]))) <= 16

\* A returned two-step schedule whose first record needs padding on the left.
C8_Witness ==
  /\ Returned
  /\ Len(encoded) = 2 + 32
  /\ Len(ToString16(PackedValue(steps[1]))) < 16
  /\ encoded[3] = "0"

\* C9: each record is rateUnits * 2^40 + durationUnits as a 64-bit value, and
\* splitting the records into upper 24 and lower 40 bits gives back the steps,
\* in their order.
C9_PackingLossless ==
  Returned =>
    /\ Decode(encoded) = steps
    /\ RecordCount(encoded) = Len(steps)
    /\ \A k \in 1..Len(steps) :
         RecordValue(RecordAt(encoded, k)) =
           BigAdd(BigMul(steps[k].mps, TwoTo40), steps[k].blockDelta)

\* A returned two-step schedule with a duration that needs more than 32 bits.
C9_Witness ==
  /\ Returned
  /\ Len(steps) = 2
  /\ steps[2].mps = One
  /\ BigGt(steps[1].blockDelta, BigShl(One, 32))
  /\ Decode(encoded) = steps

\* The rates r with r * d = 10,000,000 for some d divide 10,000,000 = 2^7 * 5^7.
DivisorsOfTotal == {(2 ^ a) * (5 ^ b) : a \in 0..7, b \in 0..7}

\* C10: the encoder returns at most two steps, and returns two only when no
\* single step {rate, d} has rate * d = 10,000,000.
C10_MinimalSteps ==
  Returned =>
    /\ Len(Decode(encoded)) \in {1, 2}
    /\ Len(Decode(encoded)) = 2 =>
         ~ \E rate \in DivisorsOfTotal : BigMul(Big(rate), durationInBlocks) = TenMillion

\* One step is returned for d = 10,000,000 and two for the d before it.
C10_Witness ==
  /\ Returned
  /\ durationInBlocks = Big(9999999)
  /\ Len(Decode(encoded)) = 2
  /\ \E rate \in DivisorsOfTotal : BigMul(Big(rate), BigAdd(durationInBlocks, One)) = TenMillion

\* The call has passed the validation of the rates, or was thrown out by it.
RatesValidated ==
  \/ pc \in {"build", "verify", "encode", "returned"}
  \/ pc = "thrown" /\ thrown = ErrMps

\* The rates of the steps the schedule of this call holds.
ProducedRates ==
  LET ss == BuildSteps(durationInBlocks, baseMps, remainder)
  IN  {ss[k].mps : k \in 1..Len(ss)}

\* C11: with MPS_TOTAL a parameter, the encoder throws the 24-bit error
\* exactly when a step of the schedule has a rate above 16,777,215.
C11_RateCheckOnProducedSteps ==
  RatesValidated =>
    (thrown = ErrMps <=> \E rate \in ProducedRates : BigGt(rate, Max24))

\* C12: a call with the duration of an earlier call ends as that call ended,
\* with the same bytes or the same error, whatever was called in between.
C12_Deterministic ==
  (pc \in {"returned", "thrown"} /\ memo.called /\ memo.d = durationInBlocks) =>
    Outcome = memo.outcome

\* A second call for 7200 blocks has returned, with another duration called
\* since the first.
C12_Witness ==
  /\ Returned
  /\ memo.called
  /\ memo.interleaved
  /\ memo.d = durationInBlocks
  /\ durationInBlocks = Big(7200)

\* C13: of two calls with valid durations, the one with the longer duration
\* has the lower or the same base rate.
C13_BaseRateMonotone ==
  (pc \in {"checkMps", "build", "verify", "encode", "returned"}
     /\ memo.called /\ memo.divided) =>
    /\ BigLe(memo.d, durationInBlocks) => BigLe(baseMps, memo.baseMps)
    /\ BigLe(durationInBlocks, memo.d) => BigLe(memo.baseMps, baseMps)

\* Base rate 200 for 50,000 blocks, after base rate 1388 for 7200 blocks.
C13_Witness ==
  /\ Returned
  /\ memo.called /\ memo.divided
  /\ memo.d = Big(7200) /\ memo.baseMps = Big(1388)
  /\ durationInBlocks = Big(50000) /\ baseMps = Big(200)

\* C14: the call for 7200 blocks returns {1388, 800} then {1389, 6400}, and
\* 1388 * 800 + 1389 * 6400 = 10,000,000.
C14_OneDaySchedule ==
  (durationInBlocks = Big(7200) /\ pc \in {"returned", "thrown"}) =>
    /\ Returned
    /\ Decode(encoded) = <<[mps |-> Big(1388), blockDelta |-> Big(7200 - (10000000 % 7200))],
                           [mps |-> Big(1389), blockDelta |-> Big(10000000 % 7200)]>>
    /\ Decode(encoded)[1].blockDelta = Big(800)
    /\ Decode(encoded)[2].blockDelta = Big(6400)
    /\ steps = Decode(encoded)
    /\ 1388 * 800 + 1389 * 6400 = 10000000

\* The call for 7200 blocks has returned its 16 bytes.
C14_Witness ==
  /\ Returned
  /\ durationInBlocks = Big(7200)
  /\ encoded = <<"0", "x">>
       \o <<"0", "0", "0", "5", "6", "c", "0", "0", "0", "0", "0", "0", "0", "3", "2", "0">>
       \o <<"0", "0", "0", "5", "6", "d", "0", "0", "0", "0", "0", "0", "1", "9", "0", "0">>

\* The duration of the form gives no block count, or the encoder throws for
\* the block count it gives.
NoStepsData(form) ==
  LET durationInDays == ParseInt(form.duration)
  IN  \/ durationInDays.nan
      \/ EncodeResult(MPS_TOTAL,
                      BigMul(Big(BLOCKS_PER_DAY), durationInDays.value)).thrown # NoError

\* The message of the error the duration of the form ends in.
StepsDataError(form) ==
  LET durationInDays == ParseInt(form.duration)
  IN  IF durationInDays.nan THEN ErrNaN
      ELSE EncodeResult(MPS_TOTAL,
                        BigMul(Big(BLOCKS_PER_DAY), durationInDays.value)).thrown

\* The run of handleSubmit came to the conversion of the duration.
ReachedDuration ==
  /\ submission.ran
  /\ submission.isConnected
  /\ submission.currentBlock.defined
  /\ submission.currentBlock.value # Zero

\* C15: a submission whose duration gives no block count, or for which the
\* encoder throws, never calls createAuction and shows one alert, the alert
\* of the error when the run came to the duration.
C15_NoCreateOnEncoderError ==
  (submission.ran /\ NoStepsData(submission.form)) =>
    /\ ~submission.called
    /\ Len(submission.alerts) = 1
    /\ ReachedDuration =>
         submission.alerts = <<"Error: " \o StepsDataError(submission.form)>>

\* A submission of 0 days at block 1000: the encoder threw, the alert shows
\* its message, createAuction was not called.
C15_Witness ==
  /\ ReachedDuration
  /\ submission.form.duration = <<"0">>
  /\ submission.currentBlock.value = Big(1000)
  /\ submission.alerts = <<"Error: Duration must be positive">>
  /\ ~submission.called

\* C20: the parameters handleSubmit passes on have the start block 10 blocks
\* after the current block and the claim block 100 blocks after the end block.
C20_StartAndClaimBlocks ==
  (submission.ran /\ submission.called) =>
    /\ submission.params.startBlock = BigAdd(submission.currentBlock.value, Big(10))
    /\ submission.params.claimBlock = BigAdd(submission.params.endBlock, Big(100))

RECURSIVE SumOfBalances(_)
SumOfBalances(holders) ==
  IF holders = {} THEN 0
  ELSE LET a == CHOOSE x \in holders : TRUE
       IN  balanceOf[a] + SumOfBalances(holders \ {a})

\* C16: after the constructor and any calls of transfer, transferFrom and
\* approve, totalSupply is what the constructor set, the balances add up to
\* it, and no addition to a balance went past the largest value.
C16_FixedSupply ==
  /\ totalSupply = tokenHistory.supply
  /\ SumOfBalances(Addresses) = totalSupply
  /\ ~lastTx.wrapped

\* All of a supply of 2 moved to bob by a transferFrom.
C16_Witness ==
  /\ lastTx.fn = "transferFrom" /\ lastTx.ok /\ lastTx.changed
  /\ totalSupply = 2
  /\ tokenHistory.supply = 2
  /\ balanceOf["bob"] = 2
  /\ balanceOf["alice"] = 0

\* C17 as stated: the allowance is what was approved less what the spender
\* moved since, the spender never moved more than was approved, and a
\* transferFrom with the allowance below value reverts with 'insufficient
\* allowance'.
C17_AsStated ==
  /\ \A owner \in Accounts, spender \in Accounts :
       /\ allowance[owner][spender] =
            tokenHistory.approved[owner][spender] - tokenHistory.moved[owner][spender]
       /\ tokenHistory.moved[owner][spender] <= tokenHistory.approved[owner][spender]
  /\ (lastTx.fn = "transferFrom" /\ lastTx.allowanceShort) =>
       lastTx.reason = ErrInsufficientAllowance

\* C17: the allowance is what was approved less what the spender moved since,
\* the spender never moved more than was approved, and a transferFrom with the
\* allowance below value reverts: with 'insufficient allowance' when the
\* recipient is not the zero address and the balance of from is not below
\* value.
C17_AllowanceSpent ==
  /\ \A owner \in Accounts, spender \in Accounts :
       /\ allowance[owner][spender] =
            tokenHistory.approved[owner][spender] - tokenHistory.moved[owner][spender]
       /\ tokenHistory.moved[owner][spender] <= tokenHistory.approved[owner][spender]
  /\ (lastTx.fn = "transferFrom" /\ lastTx.allowanceShort) =>
       /\ ~lastTx.ok
       /\ (~lastTx.toZero /\ ~lastTx.balanceShort) =>
            lastTx.reason = ErrInsufficientAllowance

\* Of an approval of 2, bob has moved 1 and a second transferFrom returned.
C17_Witness ==
  /\ lastTx.fn = "transferFrom" /\ lastTx.ok /\ lastTx.changed
  /\ tokenHistory.approved["alice"]["bob"] = 2
  /\ tokenHistory.moved["alice"]["bob"] = 1
  /\ allowance["alice"]["bob"] = 1

\* C18 as stated: transfer and transferFrom revert and change nothing when the
\* recipient is the zero address or the source balance is below value, and a
\* transferFrom with balance and allowance below value reverts with
\* 'insufficient balance'.
C18_AsStated ==
  /\ (lastTx.fn \in {"transfer", "transferFrom"} /\ (lastTx.toZero \/ lastTx.balanceShort)) =>
       ~lastTx.ok /\ ~lastTx.changed
  /\ (lastTx.fn = "transferFrom" /\ lastTx.balanceShort /\ lastTx.allowanceShort) =>
       lastTx.reason = ErrInsufficientBalance

\* C18: transfer and transferFrom revert and change nothing when the
\* recipient is the zero address or the source balance is below value; a
\* transferFrom to an address other than the zero address with balance and
\* allowance below value reverts with 'insufficient balance'.
C18_RevertsUnchanged ==
  /\ (lastTx.fn \in {"transfer", "transferFrom"} /\ (lastTx.toZero \/ lastTx.balanceShort)) =>
       ~lastTx.ok /\ ~lastTx.changed
  /\ (lastTx.fn = "transferFrom" /\ ~lastTx.toZero
        /\ lastTx.balanceShort /\ lastTx.allowanceShort) =>
       lastTx.reason = ErrInsufficientBalance

\* A transferFrom with balance and allowance below value has reverted.
C18_Witness ==
  /\ lastTx.fn = "transferFrom"
  /\ ~lastTx.toZero /\ lastTx.balanceShort /\ lastTx.allowanceShort
  /\ lastTx.reason = ErrInsufficientBalance
  /\ ~lastTx.changed

\* The tokens of the successful deployments by deployer, in their order.
RECURSIVE CreatedBy(_, _)
CreatedBy(deployer, history) ==
  IF history = <<>> THEN <<>>
  ELSE (IF history[1].deployer = deployer THEN <<history[1].token>> ELSE <<>>)
         \o CreatedBy(deployer, Tail(history))

RECURSIVE SumOfCounts(_)
SumOfCounts(deployers) ==
  IF deployers = {} THEN 0
  ELSE LET d == CHOOSE x \in deployers : TRUE
       IN  GetTokenCountByDeployer(d) + SumOfCounts(deployers \ {d})

\* C19: the count is the number of successful deployments, deployedTokens
\* lists their addresses in order and without duplicates, each deployer's
\* list is exactly the tokens that deployer created, the counts per deployer
\* add up to the count, and a call with an empty name, an empty symbol or the
\* zero recipient reverts, a reverted call changing none of the lists.
C19_FactoryTracking ==
  /\ GetDeployedTokenCount = Len(factoryHistory)
  /\ GetDeployedTokens = [i \in 1..Len(factoryHistory) |-> factoryHistory[i].token]
  /\ \A i, j \in 1..Len(deployedTokens) :
       deployedTokens[i] = deployedTokens[j] => i = j
  /\ \A d \in Addresses : GetTokensByDeployer(d) = CreatedBy(d, factoryHistory)
  /\ SumOfCounts(Addresses) = GetDeployedTokenCount
  /\ (lastDeploy.emptyName \/ lastDeploy.emptySymbol \/ lastDeploy.zeroRecipient) =>
       ~lastDeploy.ok
  /\ ~lastDeploy.ok => ~lastDeploy.changed

\* Three deployments, by alice, bob and alice, and then a call that reverted
\* for its empty symbol.
C19_Witness ==
  /\ GetDeployedTokenCount = 3
  /\ GetTokenCountByDeployer("alice") = 2
  /\ GetTokenCountByDeployer("bob") = 1
  /\ deployedTokens[2] = tokensByDeployer["bob"][1]
  /\ ~lastDeploy.ok
  /\ lastDeploy.reason = ErrSymbolRequired

\* The block count handleSubmit derives from the duration of the form.
BlocksOfForm(form) == BigMul(Big(BLOCKS_PER_DAY), ParseInt(form.duration).value)

BigLt(x, y) == BigCmp(x, y) < 0

\* 2^32 = 4,294,967,296
TwoTo32 == BigShl(One, 32)

\* C21: the parameters handleSubmit passes on have currentBlock < startBlock <
\* endBlock < claimBlock, endBlock - startBlock is the block count given to
\* the encoder, and the blockDelta fields of the encoded steps add up to it.
C21_TimingOrdered ==
  (submission.ran /\ submission.called) =>
    /\ BigLt(submission.currentBlock.value, submission.params.startBlock)
    /\ BigLt(submission.params.startBlock, submission.params.endBlock)
    /\ BigLt(submission.params.endBlock, submission.params.claimBlock)
    /\ BigSub(submission.params.endBlock, submission.params.startBlock) =
         BlocksOfForm(submission.form)
    /\ SumDurations(Decode(submission.params.auctionStepsData)) =
         BigSub(submission.params.endBlock, submission.params.startBlock)

\* A submission of 7 days at block 9,500,000: the span is 50,400 blocks, in
\* two encoded steps.
C21_Witness ==
  /\ submission.ran /\ submission.called
  /\ submission.form.duration = <<"7">>
  /\ submission.currentBlock.value = Big(9500000)
  /\ submission.params.startBlock = Big(9500300)
  /\ submission.params.endBlock = Big(9550700)
  /\ submission.params.claimBlock = Big(9550800)
  /\ Len(Decode(submission.params.auctionStepsData)) = 2
  /\ SumDurations(Decode(submission.params.auctionStepsData)) = Big(50400)

\* C26: the floor price handleSubmit passes on is the larger of the price the
\* user entered and 2^32, the tick spacing is the larger of a hundredth of
\* that floor price and 2, so the floor price is at least 4,294,967,296, the
\* tick spacing at least 2, and the tick spacing is always the hundredth.
C26_FloorAndTick ==
  (submission.ran /\ submission.called) =>
    LET userFloorPrice == ParseEther(submission.form.floorPrice)
        floorPrice == submission.params.floorPrice
        tickSpacing == submission.params.tickSpacing
        hundredth == BigDiv(floorPrice, Big(100))
    IN  /\ floorPrice = IF BigGt(userFloorPrice, TwoTo32)
                        THEN userFloorPrice ELSE TwoTo32
        /\ tickSpacing = IF BigGt(hundredth, Big(2)) THEN hundredth ELSE Big(2)
        /\ BigLe(TwoTo32, floorPrice)
        /\ BigLe(Big(2), tickSpacing)
        /\ tickSpacing = hundredth

\* A submission with the floor price 0: the minimum is passed on, with a
\* tick spacing of 42,949,672.
C26_Witness ==
  /\ submission.ran /\ submission.called
  /\ submission.form.floorPrice = <<"0">>
  /\ submission.params.floorPrice = TwoTo32
  /\ submission.params.tickSpacing = Big(42949672)

\* The duration of the call is in [1, 2^40 - 1].
InEncoderRange == BigLe(One, durationInBlocks) /\ BigLe(durationInBlocks, Max40)

\* C25: with the total of 10,000,000 no call throws the 24-bit error, a call
\* with a duration in [1, 2^40 - 1] throws nothing, and a call with a duration
\* above 10,000,000 returns two steps, the first with rate 0.
C25_AlwaysEncodes ==
  /\ thrown # ErrMps
  /\ InEncoderRange => pc # "thrown"
  /\ (Returned /\ InEncoderRange /\ BigGt(durationInBlocks, TenMillion)) =>
       /\ Len(steps) = 2
       /\ steps[1].mps = Zero
       /\ Len(Decode(encoded)) = 2
       /\ Decode(encoded)[1].mps = Zero
       /\ Decode(encoded)[1].blockDelta = BigSub(durationInBlocks, TenMillion)

\* The call with 2^40 - 1 blocks returned: rate 0 for all but 10,000,000
\* blocks, then rate 1.
C25_Witness ==
  /\ Returned
  /\ durationInBlocks = Max40
  /\ steps = <<[mps |-> Zero, blockDelta |-> BigSub(Max40, TenMillion)],
               [mps |-> One, blockDelta |-> TenMillion]>>
  /\ Decode(encoded) = steps

\* A step of the create page in which writeContract was called for fn.
SetupIssued(fn) == setup'.writes = setup.writes + 1 /\ setup'.lastWrite = fn

\* A hook whose call is waiting for the wallet, waiting for its receipt, or
\* has succeeded.
InFlightOrDone(phase) == IsPending(phase) \/ IsConfirming(phase) \/ IsSuccess(phase)

\* C22: transfer is called only when the creation has succeeded and the
\* auction address was taken from a creation receipt, onTokensReceived only
\* when, in addition, the transfer has succeeded, and neither is called while
\* its own earlier call is pending, confirming or has succeeded.
C22_SetupOrder ==
  [][ /\ SetupIssued("transfer") =>
           /\ IsSuccess(setup.create)
           /\ setup.deployedAuctionAddress \in 1..setup.writes
           /\ ~InFlightOrDone(setup.transfer)
      /\ SetupIssued("onTokensReceived") =>
           /\ IsSuccess(setup.create)
           /\ setup.deployedAuctionAddress \in 1..setup.writes
           /\ IsSuccess(setup.transfer)
           /\ ~InFlightOrDone(setup.activate)
    ]_vars

\* Creation, transfer and activation, one call each, all three succeeded.
C22_Witness ==
  /\ setup.writes = 3
  /\ setup.lastWrite = "onTokensReceived"
  /\ setup.deployedAuctionAddress = 1
  /\ IsSuccess(setup.create)
  /\ IsSuccess(setup.transfer)
  /\ IsSuccess(setup.activate)

\* C23: for an activated auction with the three blocks and the current block
\* known, 0 included, the status is pending iff currentBlock < startBlock,
\* active iff startBlock <= currentBlock < endBlock, ended iff endBlock <=
\* currentBlock < claimBlock, claimable iff currentBlock >= claimBlock; an
\* auction that is not activated is inactive.
C23_StatusPartition ==
  LET read == auctions.read
      status == AuctionStatus(auctions)
      activated == read.totalSupply.defined /\ read.totalSupply.value > 0
      known == /\ read.startBlock.defined /\ read.endBlock.defined
               /\ read.claimBlock.defined /\ auctions.currentBlock.defined
      current == auctions.currentBlock.value
  IN  /\ (activated /\ known) =>
           /\ status = "pending" <=> current < read.startBlock.value
           /\ status = "active" <=>
                (read.startBlock.value <= current /\ current < read.endBlock.value)
           /\ status = "ended" <=>
                (read.endBlock.value <= current /\ current < read.claimBlock.value)
           /\ status = "claimable" <=> current >= read.claimBlock.value
      /\ ~activated => status = "inactive"

\* A step of the auctions page in which writeContract was called for fn.
AuctionsIssued(fn) ==
  auctions'.writes = auctions.writes + 1 /\ auctions'.lastWrite = fn

\* C24: submitBid is called only when the status is active, with startBlock <=
\* currentBlock < endBlock, and no write is pending or confirming; exitBid only
\* for a bid that has not exited, the status ended or claimable; claimTokens
\* only for a bid that has not exited and has tokens filled, the status
\* claimable.
C24_BidButtons ==
  [][ /\ AuctionsIssued("submitBid") =>
           /\ AuctionStatus(auctions) = "active"
           /\ auctions.read.startBlock.defined /\ auctions.read.endBlock.defined
           /\ auctions.currentBlock.defined
           /\ auctions.read.startBlock.value <= auctions.currentBlock.value
           /\ auctions.currentBlock.value < auctions.read.endBlock.value
           /\ ~IsPending(auctions.write) /\ ~IsConfirming(auctions.write)
      /\ AuctionsIssued("exitBid") =>
           /\ AuctionStatus(auctions) \in {"ended", "claimable"}
           /\ auctions'.lastBid \in DOMAIN auctions.userBids
           /\ auctions.userBids[auctions'.lastBid].exitedBlock = 0
      /\ AuctionsIssued("claimTokens") =>
           /\ AuctionStatus(auctions) = "claimable"
           /\ auctions'.lastBid \in DOMAIN auctions.userBids
           /\ auctions.userBids[auctions'.lastBid].exitedBlock = 0
           /\ auctions.userBids[auctions'.lastBid].tokensFilled > 0
    ]_vars

\* After a bid and an exit, Claim Tokens was clicked for a bid with 5 tokens
\* filled, the auction claimable; the wallet has not answered yet.
C24_Witness ==
  /\ auctions.writes = 3
  /\ auctions.lastWrite = "claimTokens"
  /\ IsPending(auctions.write)
  /\ AuctionStatus(auctions) = "claimable"
  /\ auctions.lastBid \in DOMAIN auctions.userBids
  /\ auctions.userBids[auctions.lastBid] = [exitedBlock |-> 0, tokensFilled |-> 5]

====
